---------------------------- MODULE Spec2Model ----------------------------
(***************************************************************************)
(* playbyte: the libretro core host (crates/playbyte_libretro) and the     *)
(* emulator runtime facade (crates/playbyte_emulation).                     *)
(*                                                                         *)
(* A Session is one LibretroCore together with the callback set and the    *)
(* bridge cells (latest frame, audio ring, joypad record) its closures     *)
(* capture.  The Callback Router is the process-wide CALLBACKS slot.        *)
(*                                                                         *)
(* Spec      the owner thread drives one Session; every native call that   *)
(*           may call back is split into a begin step, the core's callback *)
(*           steps and a return step; the input thread writes the joypad.  *)
(* PairSpec  two Sessions: load, load_game, run_frame and drop.            *)
(* NewSpec   EmulatorRuntime::new, the runtime it returns and its drop.    *)
(* ShimSpec  the six router shims applied to drawn router states and       *)
(*           arguments.                                                    *)
(* RingSpec  an AudioRingBuffer on its own.                                *)
(* FrameSpec a runtime running frames while a reader calls latest_frame(). *)
(***************************************************************************)
EXTENDS Integers, Sequences, FiniteSets, TLC

VARIABLES
    router,        \* CALLBACKS: the registered callback set, or NoCallbacks
    pixel_format,  \* Callbacks.pixel_format of each callback set
    latest_frame,  \* EmulatorRuntime.latest_frame: <<>> or <<frame>>
    audio,         \* AudioRingBuffer.inner of each runtime
    joypad,        \* JoypadState of each runtime
    life,          \* LibretroCore: "unborn", "loading", "live", "dropping", "dead", "failed"
    lib_mapped,    \* LibretroCore._lib: the native library is mapped
    game_loaded,   \* LibretroCore.game_loaded
    loaded_game,   \* LibretroCore.loaded_game is Some
    core,          \* the native core's own state: [inited, game, st]
    pc,            \* the owner thread: the native call in progress
    ret,           \* the result of the last host operation
    shim_ret,      \* what the last shim invocation returned into the native call
    teardown,      \* history: the steps each Session's drop has performed
    xdeliv,        \* history: <<core, callback set>> of every delivery
    overlap,       \* history: a load registered while another library was mapped
    det,           \* history: the save / continue / restore / continue run
    ring,          \* an AudioRingBuffer on its own: [capacity, inner]
    ring_log,      \* history: the calls made on ring, and what the last pop returned
    seen,          \* what the reader's last latest_frame() returned: <<>> or <<frame>>
    frame_log,     \* history: frames stored so far, and the age of the one seen
    input_log,     \* history: the value last written by set_button, per button id
    timing,        \* the fps the core reports in its AV info, and EmulatorRuntime.fps
    conv,          \* convert_frame_to_rgba: the frame converted and the RGBA bytes
    app,           \* the application: feed position, runtime slot, autosaves, Bytes
    locks          \* the mutexes of the bridge: who holds each, what each thread has left

vars == <<router, pixel_format, latest_frame, audio, joypad, life, lib_mapped,
          game_loaded, loaded_game, core, pc, ret, shim_ret, teardown, xdeliv,
          overlap, det, ring, ring_log, seen, frame_log, input_log, timing,
          conv, app, locks>>

\* what the Sessions' operations do not touch
aside == <<ring, ring_log, seen, frame_log>>

\* what only the input, timing, conversion and application steps touch
apart == <<input_log, timing, conv, app, locks>>

bridge == <<pixel_format, latest_frame, audio, joypad>>

-----------------------------------------------------------------------------
(* Program constants *)

RETRO_API_VERSION == 1
RETRO_ENVIRONMENT_GET_CAN_DUPE == 3
RETRO_ENVIRONMENT_SET_PIXEL_FORMAT == 10

Xrgb8888 == 0
Rgb565 == 1
_0rgb1555 == 2

RETRO_DEVICE_JOYPAD == 1
DefaultFps == 60
RETRO_DEVICE_ID_JOYPAD_B == 0
RETRO_DEVICE_ID_JOYPAD_Y == 1
RETRO_DEVICE_ID_JOYPAD_SELECT == 2
RETRO_DEVICE_ID_JOYPAD_START == 3
RETRO_DEVICE_ID_JOYPAD_UP == 4
RETRO_DEVICE_ID_JOYPAD_DOWN == 5
RETRO_DEVICE_ID_JOYPAD_LEFT == 6
RETRO_DEVICE_ID_JOYPAD_RIGHT == 7
RETRO_DEVICE_ID_JOYPAD_A == 8
RETRO_DEVICE_ID_JOYPAD_X == 9
RETRO_DEVICE_ID_JOYPAD_L == 10
RETRO_DEVICE_ID_JOYPAD_R == 11

-----------------------------------------------------------------------------
(* Bounds *)

\* command values the environment shim is tried with: 0 .. MaxCmd
MaxCmd == 11
\* the runtime's ring capacity (48_000 * 2 in EmulatorRuntime::new), scaled
AudioCap == 2
\* the emulated machine has NumCoreStates states
NumCoreStates == 3
\* frames counted after a save
MaxM == 2
\* video-refresh arguments tried on the shim
MaxDim == 2
\* bytes of a save state of the modelled core
StateSize == 2
\* capacities an AudioRingBuffer is constructed with: 0 .. MaxCapacity
MaxCapacity == 3
\* samples pushed into the ring in all, and in one push_samples call
MaxPushed == 4
MaxBatch == 2
\* length of the slice handed to pop_samples: 0 .. MaxOut
MaxOut == 3
\* frames the core stores while the reader watches
MaxFrames == 3

-----------------------------------------------------------------------------
(* Value sets *)

Sessions == {"A", "B"}
NoCallbacks == "None"
\* ptr::null(): no native buffer starts there
NullPtr == -1

RetroPixelFormat == {Xrgb8888, Rgb565, _0rgb1555}
Cmds == 0 .. MaxCmd

\* the bytes a native buffer starting with byte `seed` holds
Memory(seed, n) == [i \in 1 .. n |-> (seed + i - 1) % 256]


-----------------------------------------------------------------------------
(* JoypadState (playbyte_emulation) *)

JoypadDefault ==
    [a |-> FALSE, b |-> FALSE, x |-> FALSE, y |-> FALSE, l |-> FALSE,
     r |-> FALSE, start |-> FALSE, select |-> FALSE, up |-> FALSE,
     down |-> FALSE, left |-> FALSE, right |-> FALSE]

\* a joypad record on which a press sticks until every button is cleared
set_button_sticky(j, id, pressed) ==
    CASE id = RETRO_DEVICE_ID_JOYPAD_A -> [j EXCEPT !.a = @ \/ pressed]
      [] id = RETRO_DEVICE_ID_JOYPAD_B -> [j EXCEPT !.b = @ \/ pressed]
      [] id = RETRO_DEVICE_ID_JOYPAD_R -> [j EXCEPT !.r = @ \/ pressed]
      [] id = RETRO_DEVICE_ID_JOYPAD_UP -> [j EXCEPT !.up = @ \/ pressed]
      [] OTHER -> j

set_button(j, id, pressed) ==
    CASE id = RETRO_DEVICE_ID_JOYPAD_A -> [j EXCEPT !.a = pressed]
      [] id = RETRO_DEVICE_ID_JOYPAD_B -> [j EXCEPT !.b = pressed]
      [] id = RETRO_DEVICE_ID_JOYPAD_X -> [j EXCEPT !.x = pressed]
      [] id = RETRO_DEVICE_ID_JOYPAD_Y -> [j EXCEPT !.y = pressed]
      [] id = RETRO_DEVICE_ID_JOYPAD_L -> [j EXCEPT !.l = pressed]
      [] id = RETRO_DEVICE_ID_JOYPAD_R -> [j EXCEPT !.r = pressed]
      [] id = RETRO_DEVICE_ID_JOYPAD_START -> [j EXCEPT !.start = pressed]
      [] id = RETRO_DEVICE_ID_JOYPAD_SELECT -> [j EXCEPT !.select = pressed]
      [] id = RETRO_DEVICE_ID_JOYPAD_UP -> [j EXCEPT !.up = pressed]
      [] id = RETRO_DEVICE_ID_JOYPAD_DOWN -> [j EXCEPT !.down = pressed]
      [] id = RETRO_DEVICE_ID_JOYPAD_LEFT -> [j EXCEPT !.left = pressed]
      [] id = RETRO_DEVICE_ID_JOYPAD_RIGHT -> [j EXCEPT !.right = pressed]
      [] OTHER -> j

value_for_id(j, id) ==
    LET pressed ==
            CASE id = RETRO_DEVICE_ID_JOYPAD_A -> j.a
              [] id = RETRO_DEVICE_ID_JOYPAD_B -> j.b
              [] id = RETRO_DEVICE_ID_JOYPAD_X -> j.x
              [] id = RETRO_DEVICE_ID_JOYPAD_Y -> j.y
              [] id = RETRO_DEVICE_ID_JOYPAD_L -> j.l
              [] id = RETRO_DEVICE_ID_JOYPAD_R -> j.r
              [] id = RETRO_DEVICE_ID_JOYPAD_START -> j.start
              [] id = RETRO_DEVICE_ID_JOYPAD_SELECT -> j.select
              [] id = RETRO_DEVICE_ID_JOYPAD_UP -> j.up
              [] id = RETRO_DEVICE_ID_JOYPAD_DOWN -> j.down
              [] id = RETRO_DEVICE_ID_JOYPAD_LEFT -> j.left
              [] id = RETRO_DEVICE_ID_JOYPAD_RIGHT -> j.right
              [] OTHER -> FALSE
    IN  IF pressed THEN 1 ELSE 0

-----------------------------------------------------------------------------
(* AudioRingBuffer (playbyte_emulation) *)

pop_front(q) == IF q = <<>> THEN q ELSE Tail(q)

\* a push that stores a batch newest sample first
RECURSIVE push_samples_reversed(_, _, _)
push_samples_reversed(q, capacity, samples) ==
    IF samples = <<>> THEN q
    ELSE LET last == samples[Len(samples)]
         IN  push_samples_reversed(
                 (IF Len(q) = capacity THEN pop_front(q) ELSE q) \o <<last>>,
                 capacity, SubSeq(samples, 1, Len(samples) - 1))

RECURSIVE push_samples(_, _, _)
push_samples(q, capacity, samples) ==
    IF samples = <<>> THEN q
    ELSE push_samples(
             (IF Len(q) = capacity THEN pop_front(q) ELSE q) \o <<Head(samples)>>,
             capacity, Tail(samples))

\* AudioRingBuffer::new
AudioRingBuffer(capacity) == [capacity |-> capacity, inner |-> <<>>]

\* a pop that copies the samples out and leaves them buffered
RECURSIVE pop_samples_peek(_, _)
pop_samples_peek(q, n) ==
    IF n = 0 THEN [out |-> <<>>, inner |-> q]
    ELSE LET r == pop_samples_peek(pop_front(q), n - 1)
         IN  [out |-> <<IF q = <<>> THEN 0 ELSE Head(q)>> \o r.out, inner |-> q]

\* AudioRingBuffer::pop_samples into a slice of n samples: the slice as it
\* is filled, and what stays buffered
RECURSIVE pop_samples(_, _)
pop_samples(q, n) ==
    IF n = 0 THEN [out |-> <<>>, inner |-> q]
    ELSE LET r == pop_samples(pop_front(q), n - 1)
         IN  [out |-> <<IF q = <<>> THEN 0 ELSE Head(q)>> \o r.out,
              inner |-> r.inner]

-----------------------------------------------------------------------------
(* The closures EmulatorRuntime::new hands to Callbacks::new.  `cb` is the *)
(* runtime whose cells the closures captured.                               *)

VideoFrame(width, height, pitch, format, data) ==
    [width |-> width, height |-> height, pitch |-> pitch,
     pixel_format |-> format, data |-> data]

video_refresh_closure(cb, data, width, height, pitch, format) ==
    [latest_frame EXCEPT ![cb] = <<VideoFrame(width, height, pitch, format, data)>>]

\* a closure that appends a batch back to front
audio_closure_reversed(cb, samples) ==
    [audio EXCEPT ![cb] = push_samples_reversed(audio[cb], AudioCap, samples)]

audio_closure(cb, samples) ==
    [audio EXCEPT ![cb] = push_samples(audio[cb], AudioCap, samples)]

\* a closure that answers for every port
input_state_closure_any_port(cb, port, device, index, id) ==
    IF device # RETRO_DEVICE_JOYPAD THEN 0
    ELSE value_for_id(joypad[cb], id)

input_state_closure(cb, port, device, index, id) ==
    IF port # 0 \/ device # RETRO_DEVICE_JOYPAD THEN 0
    ELSE value_for_id(joypad[cb], id)

-----------------------------------------------------------------------------
(* The Callback Router (playbyte_libretro): CALLBACKS and the six shims.   *)
(* A pointer argument is NullPtr or the first byte of the native buffer.   *)

\* with_callbacks: the callback set a shim delegates to, if any
with_callbacks == router

Registered == with_callbacks # NoCallbacks

\* one format cell shared by every callback set
set_pixel_format_shared(cb, format) == [s \in DOMAIN pixel_format |-> format]

\* Callbacks::set_pixel_format
set_pixel_format(cb, format) == [pixel_format EXCEPT ![cb] = format]

\* a shim invocation: its arguments, and the bool or integer it returns
ShimRet(shim, args, ok, val) == [shim |-> shim, args |-> args, ok |-> ok, val |-> val]

\* no shim invocation is returning into a native call
NoShimRet == ShimRet("-", <<>>, FALSE, 0)

\* an environment shim that claims support for what it does not know
environment_ret_permissive(cmd, data) ==
    IF cmd = RETRO_ENVIRONMENT_GET_CAN_DUPE THEN data # NullPtr
    ELSE IF cmd = RETRO_ENVIRONMENT_SET_PIXEL_FORMAT
         THEN data # NullPtr /\ data \in {Xrgb8888, Rgb565}
         ELSE TRUE

\* what environment_callback returns
environment_ret(cmd, data) ==
    IF cmd = RETRO_ENVIRONMENT_GET_CAN_DUPE THEN data # NullPtr
    ELSE IF cmd = RETRO_ENVIRONMENT_SET_PIXEL_FORMAT
         THEN data # NullPtr /\ data \in {Xrgb8888, Rgb565}
         ELSE FALSE

\* an environment shim that records whatever format it is asked for
environment_formats_unfiltered(cmd, data) ==
    IF /\ cmd = RETRO_ENVIRONMENT_SET_PIXEL_FORMAT
       /\ data # NullPtr
       /\ Registered
    THEN set_pixel_format(with_callbacks, data)
    ELSE pixel_format

\* the pixel formats environment_callback leaves behind
environment_formats(cmd, data) ==
    IF /\ cmd = RETRO_ENVIRONMENT_SET_PIXEL_FORMAT
       /\ data # NullPtr
       /\ data \in {Xrgb8888, Rgb565}
       /\ Registered
    THEN set_pixel_format(with_callbacks, data)
    ELSE pixel_format

environment_callback(cmd, data) ==
    /\ shim_ret' = ShimRet("environment", <<cmd, data>>, environment_ret(cmd, data), 0)
    /\ pixel_format' = environment_formats(cmd, data)
    /\ UNCHANGED <<latest_frame, audio, joypad>>

\* a shim that keeps the first frame it stored
video_refresh_frames_keep_first(data, width, height, pitch) ==
    IF data = NullPtr \/ width = 0 \/ height = 0 \/ ~Registered THEN latest_frame
    ELSE IF latest_frame[with_callbacks] # <<>> THEN latest_frame
    ELSE video_refresh_closure(with_callbacks, Memory(data, pitch * height),
                               width, height, pitch,
                               pixel_format[with_callbacks])

\* the frame cells video_refresh_callback leaves behind
video_refresh_frames(data, width, height, pitch) ==
    IF data = NullPtr \/ width = 0 \/ height = 0 \/ ~Registered
    THEN latest_frame
    ELSE video_refresh_closure(with_callbacks, Memory(data, pitch * height),
                               width, height, pitch,
                               pixel_format[with_callbacks])

video_refresh_callback(data, width, height, pitch) ==
    /\ shim_ret' = ShimRet("video_refresh", <<data, width, height, pitch>>, FALSE, 0)
    /\ latest_frame' = video_refresh_frames(data, width, height, pitch)
    /\ UNCHANGED <<pixel_format, audio, joypad>>

audio_sample_callback(left, right) ==
    /\ shim_ret' = ShimRet("audio_sample", <<left, right>>, FALSE, 0)
    /\ audio' = IF Registered THEN audio_closure(with_callbacks, <<left, right>>)
                ELSE audio
    /\ UNCHANGED <<pixel_format, latest_frame, joypad>>

audio_sample_batch_callback(data, frames) ==
    /\ shim_ret' = ShimRet("audio_sample_batch", <<data, frames>>, FALSE,
                           IF data = NullPtr \/ frames = 0 THEN 0 ELSE frames)
    /\ audio' = IF data = NullPtr \/ frames = 0 \/ ~Registered THEN audio
                ELSE audio_closure(with_callbacks, Memory(data, frames * 2))
    /\ UNCHANGED <<pixel_format, latest_frame, joypad>>

input_poll_callback ==
    /\ shim_ret' = ShimRet("input_poll", <<>>, FALSE, 0)
    /\ UNCHANGED <<pixel_format, latest_frame, audio, joypad>>

\* an input_state shim whose default is "pressed"
input_state_ret_default_pressed(port, device, index, id) ==
    IF Registered THEN input_state_closure(with_callbacks, port, device, index, id)
    ELSE 1

\* what input_state_callback returns
input_state_ret(port, device, index, id) ==
    IF Registered THEN input_state_closure(with_callbacks, port, device, index, id)
    ELSE 0

input_state_callback(port, device, index, id) ==
    /\ shim_ret' = ShimRet("input_state", <<port, device, index, id>>, FALSE,
                           input_state_ret(port, device, index, id))
    /\ UNCHANGED <<pixel_format, latest_frame, audio, joypad>>


-----------------------------------------------------------------------------
(* The native core behind the ABI.  Its run step is a function of its own  *)
(* state and of what input_state answered; its save state is sized by      *)
(* retro_serialize_size and restores without partial effect.                *)

CoreDefault == [inited |-> FALSE, game |-> FALSE, st |-> 0]

\* retro_run: the next machine state, given the polled button
retro_run(st, button) == (st + 1 + button) % NumCoreStates

\* the state in which the core passes a null frame (a duplicated frame)
DupeState == NumCoreStates - 1

\* the frame buffer the core passes to video_refresh in state st
CoreFrame(st) == IF st = DupeState THEN NullPtr ELSE 16 * st

\* the stereo sample pair the core emits per frame
CoreSamples == <<1, 2>>

\* the save state of machine state st in a buffer of `size` bytes
Encode(st, size) == [i \in 1 .. size |-> IF i = 1 THEN st ELSE 0]

retro_serialize_size(c) == IF c.game THEN StateSize ELSE 0

\* retro_serialize(data, size): `willing` is the core's own verdict
retro_serialize(c, buffer, size, willing) ==
    IF willing /\ c.game /\ size >= StateSize /\ Len(buffer) >= size
    THEN [ok |-> TRUE, buf |-> [i \in 1 .. Len(buffer) |->
                                  IF i <= StateSize THEN Encode(c.st, StateSize)[i]
                                  ELSE buffer[i]]]
    ELSE [ok |-> FALSE, buf |-> buffer]

\* retro_unserialize(data, size): all or nothing
retro_unserialize(c, data, size) ==
    IF c.game /\ size = StateSize /\ Len(data) >= size /\ data[1] < NumCoreStates
    THEN [ok |-> TRUE, c |-> [c EXCEPT !.st = data[1]]]
    ELSE [ok |-> FALSE, c |-> c]

\* save states handed to unserialize
Blobs == {Encode(k, StateSize) : k \in 0 .. NumCoreStates} \cup {<<>>}

-----------------------------------------------------------------------------
(* LibretroCore (playbyte_libretro) and the EmulatorRuntime facade          *)

Symbols ==
    <<"retro_init", "retro_deinit", "retro_api_version", "retro_get_system_info",
      "retro_get_system_av_info", "retro_set_environment",
      "retro_set_video_refresh", "retro_set_audio_sample",
      "retro_set_audio_sample_batch", "retro_set_input_poll",
      "retro_set_input_state", "retro_load_game", "retro_unload_game",
      "retro_run", "retro_serialize_size", "retro_serialize",
      "retro_unserialize">>

\* the result of a host operation; RuntimeError wraps a LibretroError.
\* sym, expected and actual are the payload of the error; absent is the
\* first entry point the library lacks, if that is why the load failed
Ret(op, s, val) ==
    [op |-> op, s |-> s, val |-> val, err |-> <<>>, native |-> TRUE,
     buf |-> <<>>, size |-> 0, passed |-> 0, sym |-> "", expected |-> 0,
     actual |-> 0, absent |-> ""]

RuntimeError(e) == <<"Libretro", e>>

\* a serialize whose buffer is one byte longer than the size it passes
serialize_long_buffer(s, willing) ==
    LET size == retro_serialize_size(core[s])
        buffer == [i \in 1 .. size + 1 |-> 0]
        r == retro_serialize(core[s], buffer, size, willing)
    IN  [Ret("serialize", s, IF r.ok THEN "Ok" ELSE "Serialize")
            EXCEPT !.native = r.ok,
                   !.buf = IF r.ok THEN r.buf ELSE <<>>,
                   !.size = size,
                   !.passed = size]

\* a serialize that returns the buffer whatever the core answered
serialize_ignoring_ok(s, willing) ==
    LET size == retro_serialize_size(core[s])
        buffer == [i \in 1 .. size |-> 0]
        r == retro_serialize(core[s], buffer, size, willing)
    IN  [Ret("serialize", s, "Ok")
            EXCEPT !.native = r.ok, !.buf = r.buf, !.size = size, !.passed = size]

\* LibretroCore::serialize on Session s
serialize(s, willing) ==
    LET size == retro_serialize_size(core[s])
        buffer == [i \in 1 .. size |-> 0]
        r == retro_serialize(core[s], buffer, size, willing)
    IN  [Ret("serialize", s, IF r.ok THEN "Ok" ELSE "Serialize")
            EXCEPT !.native = r.ok,
                   !.buf = IF r.ok THEN r.buf ELSE <<>>,
                   !.size = size,
                   !.passed = size]

\* an unserialize that reports success without calling the core
unserialize_skipping_native(s, data) ==
    [ret |-> [Ret("unserialize", s, "Ok") EXCEPT !.passed = Len(data)],
     core |-> core[s]]

\* an unserialize that, when the core refuses, restores a blank state instead
unserialize_fallback(s, data) ==
    LET r == retro_unserialize(core[s], data, Len(data))
        blank == retro_unserialize(core[s], Encode(0, StateSize), StateSize)
    IN  [ret |-> [Ret("unserialize", s, IF r.ok THEN "Ok" ELSE "Unserialize")
                     EXCEPT !.native = r.ok, !.passed = Len(data)],
         core |-> IF r.ok THEN r.c ELSE blank.c]

\* LibretroCore::unserialize on Session s
unserialize(s, data) ==
    LET r == retro_unserialize(core[s], data, Len(data))
    IN  [ret |-> [Ret("unserialize", s, IF r.ok THEN "Ok" ELSE "Unserialize")
                     EXCEPT !.native = r.ok, !.passed = Len(data)],
         core |-> r.c]

\* EmulatorRuntime::serialize / unserialize: Ok(self.core. ... ?)
runtime_result(r) ==
    IF r.val = "Ok" THEN r
    ELSE [r EXCEPT !.err = RuntimeError(r.val), !.val = "Err"]

Idle == [op |-> "idle", s |-> "-", stage |-> "-", drop |-> FALSE]
Call(op, s, stage, drop) == [op |-> op, s |-> s, stage |-> stage, drop |-> drop]

DetOff == [phase |-> "off", s |-> "-", blob |-> <<>>, na |-> 0, fa |-> <<>>,
           nb |-> 0, fb |-> <<>>]

\* the history forgets a run that Session s leaves
Forget(s) == IF det.s = s THEN DetOff ELSE det


-----------------------------------------------------------------------------
(* Owner-thread operations *)

host == <<life, lib_mapped, game_loaded, loaded_game>>
history == <<teardown, xdeliv, overlap, det, aside>>

\* Library::new fails
LoadLibraryFails(s) ==
    /\ pc = Idle /\ life[s] = "unborn"
    /\ life' = [life EXCEPT ![s] = "failed"]
    /\ ret' = Ret("load", s, "LoadLibrary")
    /\ UNCHANGED <<router, bridge, lib_mapped, game_loaded, loaded_game, core,
                   pc, shim_ret, history>>

\* Symbols::load fails on the first absent symbol k: lib.get(..)? converts
\* the libloading::Error through From into LibretroError::LoadLibrary
LoadMissingSymbol(s, k) ==
    /\ pc = Idle /\ life[s] = "unborn"
    /\ life' = [life EXCEPT ![s] = "failed"]
    /\ ret' = [Ret("load", s, "LoadLibrary") EXCEPT !.absent = Symbols[k]]
    /\ UNCHANGED <<router, bridge, lib_mapped, game_loaded, loaded_game, core,
                   pc, shim_ret, history>>

\* versions a library reports
ApiVersions == {0, RETRO_API_VERSION, 2}

\* a gate that turns away older libraries only
api_version_mismatch_older(actual) == actual < RETRO_API_VERSION

\* api_version != RETRO_API_VERSION
api_version_mismatch(actual) == actual # RETRO_API_VERSION

LoadApiVersion(s, actual) ==
    /\ pc = Idle /\ life[s] = "unborn"
    /\ api_version_mismatch(actual)
    /\ life' = [life EXCEPT ![s] = "failed"]
    /\ ret' = [Ret("load", s, "ApiVersion")
                  EXCEPT !.expected = RETRO_API_VERSION, !.actual = actual]
    /\ UNCHANGED <<router, bridge, lib_mapped, game_loaded, loaded_game, core,
                   pc, shim_ret, history>>

\* a load that leaves the slot to a Session that is still alive
register_unless_live(s) ==
    IF router # NoCallbacks /\ life[router] = "live" THEN router ELSE s

\* a load that calls the setters and retro_init before it registers
register_after_init(s) == router

\* a load that registers only into an empty slot
register_if_empty(s) == IF router = NoCallbacks THEN s ELSE router

\* the slot after LibretroCore::load has registered Session s
register(s) == s

\* LibretroCore::load up to the native setters and retro_init
LoadBegin(s) ==
    /\ pc = Idle /\ life[s] = "unborn"
    /\ \E actual \in ApiVersions :
           /\ ~api_version_mismatch(actual)
           /\ ret' = [Ret("load", s, "Pending") EXCEPT !.actual = actual]
    /\ life' = [life EXCEPT ![s] = "loading"]
    /\ lib_mapped' = [lib_mapped EXCEPT ![s] = TRUE]
    /\ router' = register(s)
    /\ overlap' = (overlap \/ \E t \in Sessions \ {s} : lib_mapped[t])
    /\ pc' = Call("init", s, "-", FALSE)
    /\ UNCHANGED <<bridge, game_loaded, loaded_game, core, shim_ret,
                   teardown, xdeliv, det>>
    /\ UNCHANGED aside

\* retro_init has returned; read_system_info decodes the metadata
LoadReturn(s, utf8) ==
    /\ pc.op = "init" /\ pc.s = s
    /\ core' = [core EXCEPT ![s].inited = TRUE]
    /\ IF utf8
       THEN /\ life' = [life EXCEPT ![s] = "live"]
            /\ ret' = [ret EXCEPT !.val = "Ok"]
            /\ UNCHANGED lib_mapped
       ELSE /\ life' = [life EXCEPT ![s] = "failed"]
            /\ ret' = [ret EXCEPT !.val = "Utf8"]
            /\ lib_mapped' = [lib_mapped EXCEPT ![s] = FALSE]
    /\ pc' = Idle
    /\ shim_ret' = NoShimRet
    /\ UNCHANGED <<router, bridge, game_loaded, loaded_game, history>>

\* load_game: the file cannot be read or its path holds a NUL
LoadGameUnreadable(s) ==
    /\ pc = Idle /\ life[s] = "live"
    /\ ret' = Ret("load_game", s, "LoadGame")
    /\ UNCHANGED <<router, bridge, host, core, pc, shim_ret, history>>

LoadGameBegin(s) ==
    /\ pc = Idle /\ life[s] = "live"
    /\ pc' = Call("load_game", s, "-", FALSE)
    /\ UNCHANGED <<router, bridge, host, core, ret, shim_ret, history>>

\* a load_game that stores the game image before the core has accepted it
LoadGameReturn_keeping_image(s, ok) ==
    /\ pc.op = "load_game" /\ pc.s = s
    /\ loaded_game' = [loaded_game EXCEPT ![s] = TRUE]
    /\ IF ok
       THEN /\ game_loaded' = [game_loaded EXCEPT ![s] = TRUE]
            /\ core' = [core EXCEPT ![s].game = TRUE, ![s].st = 0]
            /\ ret' = Ret("load_game", s, "Ok")
       ELSE /\ ret' = [Ret("load_game", s, "LoadGame") EXCEPT !.native = FALSE]
            /\ UNCHANGED <<game_loaded, core>>
    /\ det' = Forget(s)
    /\ pc' = Idle
    /\ shim_ret' = NoShimRet
    /\ UNCHANGED <<router, bridge, life, lib_mapped, teardown, xdeliv, overlap>>
    /\ UNCHANGED aside

\* retro_load_game has returned
LoadGameReturn(s, ok) ==
    /\ pc.op = "load_game" /\ pc.s = s
    /\ IF ok
       THEN /\ game_loaded' = [game_loaded EXCEPT ![s] = TRUE]
            /\ loaded_game' = [loaded_game EXCEPT ![s] = TRUE]
            /\ core' = [core EXCEPT ![s].game = TRUE, ![s].st = 0]
            /\ ret' = Ret("load_game", s, "Ok")
       ELSE /\ ret' = [Ret("load_game", s, "LoadGame") EXCEPT !.native = FALSE]
            /\ UNCHANGED <<game_loaded, loaded_game, core>>
    /\ det' = Forget(s)
    /\ pc' = Idle
    /\ shim_ret' = NoShimRet
    /\ UNCHANGED <<router, bridge, life, lib_mapped, teardown, xdeliv, overlap>>
    /\ UNCHANGED aside

\* unload_game called by the owner
UnloadGameBegin(s) ==
    /\ pc = Idle /\ life[s] = "live"
    /\ game_loaded[s]
    /\ pc' = Call("unload_game", s, "-", FALSE)
    /\ UNCHANGED <<router, bridge, host, core, ret, shim_ret, history>>

\* the owner lets go of the Session: Drop for LibretroCore begins
DropBegin(s) ==
    /\ pc = Idle /\ life[s] = "live"
    /\ life' = [life EXCEPT ![s] = "dropping"]
    /\ pc' = Call(IF game_loaded[s] THEN "unload_game" ELSE "deinit", s, "-", TRUE)
    /\ det' = Forget(s)
    /\ UNCHANGED <<router, bridge, lib_mapped, game_loaded, loaded_game, core,
                   ret, shim_ret, teardown, xdeliv, overlap>>
    /\ UNCHANGED aside

Step(ev) == [ev |-> ev, reg |-> router]

\* retro_unload_game has returned
UnloadGameReturn(s) ==
    /\ pc.op = "unload_game" /\ pc.s = s
    /\ game_loaded' = [game_loaded EXCEPT ![s] = FALSE]
    /\ loaded_game' = [loaded_game EXCEPT ![s] = FALSE]
    /\ core' = [core EXCEPT ![s].game = FALSE]
    /\ det' = Forget(s)
    /\ IF pc.drop
       THEN /\ pc' = Call("deinit", s, "-", TRUE)
            /\ teardown' = [teardown EXCEPT ![s] = @ \o <<Step("unload_game")>>]
       ELSE /\ pc' = Idle
            /\ UNCHANGED teardown
    /\ shim_ret' = NoShimRet
    /\ UNCHANGED <<router, bridge, life, lib_mapped, ret, xdeliv, overlap>>
    /\ UNCHANGED aside

\* a drop that unmaps the library before it deinitializes the core
drop_tail_unmap_first == <<Step("drop_lib"), Step("deinit")>>

\* what Drop for LibretroCore does once retro_deinit has returned: the
\* fields are dropped, _lib among them
drop_tail == <<Step("deinit"), Step("drop_lib")>>

\* the slot after the Session is gone
drop_router == router

DeinitReturn(s) ==
    /\ pc.op = "deinit" /\ pc.s = s
    /\ core' = [core EXCEPT ![s].inited = FALSE]
    /\ teardown' = [teardown EXCEPT ![s] = @ \o drop_tail]
    /\ router' = drop_router
    /\ lib_mapped' = [lib_mapped EXCEPT ![s] = FALSE]
    /\ life' = [life EXCEPT ![s] = "dead"]
    /\ pc' = Idle
    /\ shim_ret' = NoShimRet
    /\ UNCHANGED <<bridge, game_loaded, loaded_game, ret, xdeliv, overlap, det>>
    /\ UNCHANGED aside

RunBegin(s) ==
    /\ pc = Idle /\ life[s] = "live"
    /\ game_loaded[s]
    /\ pc' = Call("run", s, "poll", FALSE)
    /\ UNCHANGED <<router, bridge, host, core, ret, shim_ret, history>>

\* the history of the run: one more frame after the save or the restore
Counted(s) ==
    IF det.s # s THEN det
    ELSE IF det.phase = "A" /\ det.na < MaxM
         THEN [det EXCEPT !.na = @ + 1, !.fa = latest_frame[s]]
    ELSE IF det.phase = "B" /\ det.nb < det.na
         THEN [det EXCEPT !.nb = @ + 1, !.fb = latest_frame[s]]
    ELSE DetOff

RunReturn(s) ==
    /\ pc.op = "run" /\ pc.s = s /\ pc.stage = "done"
    /\ pc' = Idle
    /\ det' = Counted(s)
    /\ shim_ret' = NoShimRet
    /\ UNCHANGED <<router, bridge, host, core, ret, teardown, xdeliv, overlap>>
    /\ UNCHANGED aside

\* EmulatorRuntime::serialize
Serialize(s, willing) ==
    /\ pc = Idle /\ life[s] = "live"
    /\ ret' = runtime_result(serialize(s, willing))
    /\ det' = IF ret'.val = "Ok"
              THEN [DetOff EXCEPT !.phase = "A", !.s = s, !.blob = ret'.buf,
                                  !.fa = latest_frame[s]]
              ELSE det
    /\ UNCHANGED <<router, bridge, host, core, pc, shim_ret, teardown, xdeliv,
                   overlap>>
    /\ UNCHANGED aside

\* the history of the run: the save is restored, or another state is
Restored(s, data) ==
    IF det.s # s THEN det
    ELSE IF data # det.blob THEN DetOff
    ELSE IF det.na = 0 THEN det
    ELSE [det EXCEPT !.phase = "B", !.nb = 0, !.fb = <<>>]

\* EmulatorRuntime::unserialize
Unserialize(s, data) ==
    /\ pc = Idle /\ life[s] = "live"
    /\ LET r == unserialize(s, data)
       IN  /\ ret' = runtime_result(r.ret)
           /\ core' = [core EXCEPT ![s] = r.core]
           /\ det' = IF r.ret.val = "Ok" THEN Restored(s, data) ELSE det
    /\ UNCHANGED <<router, bridge, host, pc, shim_ret, teardown, xdeliv, overlap>>
    /\ UNCHANGED aside

-----------------------------------------------------------------------------
(* Input thread *)

\* ids the input thread writes: a known button and an unknown id
InputIds == {RETRO_DEVICE_ID_JOYPAD_A, 12}

SetButton(s, id, pressed) ==
    /\ life[s] = "live"
    /\ joypad' = [joypad EXCEPT ![s] = set_button(joypad[s], id, pressed)]
    /\ det' = IF joypad'[s] # joypad[s] THEN Forget(s) ELSE det
    /\ UNCHANGED <<router, pixel_format, latest_frame, audio, host, core, pc, ret,
                   shim_ret, teardown, xdeliv, overlap>>
    /\ UNCHANGED aside

-----------------------------------------------------------------------------
(* The core calls back during a native call of Session pc.s *)

\* the modelled core makes its environment calls in init, load_game,
\* unload_game and deinit, and in run before it polls the input
InNative == pc.op # "idle" /\ (pc.op = "run" => pc.stage = "poll")

\* environment commands the modelled core issues: the two the host knows
\* and one it does not (RETRO_ENVIRONMENT_SET_ROTATION)
CoreCmds == {1, RETRO_ENVIRONMENT_GET_CAN_DUPE, RETRO_ENVIRONMENT_SET_PIXEL_FORMAT}

\* the delivery history once a shim has reached the registered closures
Delivered(reached) ==
    IF reached /\ Registered THEN xdeliv \cup {<<pc.s, with_callbacks>>} ELSE xdeliv

rest == <<router, host, ret, teardown, overlap, det, aside>>

CoreEnvironment(cmd, data) ==
    /\ InNative
    /\ environment_callback(cmd, data)
    /\ xdeliv' = Delivered(cmd = RETRO_ENVIRONMENT_SET_PIXEL_FORMAT
                             /\ environment_ret(cmd, data))
    /\ UNCHANGED <<core, pc, rest>>

CoreInputPoll ==
    /\ pc.op = "run" /\ pc.stage = "poll"
    /\ input_poll_callback
    /\ xdeliv' = Delivered(TRUE)
    /\ pc' = [pc EXCEPT !.stage = "state"]
    /\ UNCHANGED <<core, rest>>

CoreInputState ==
    /\ pc.op = "run" /\ pc.stage = "state"
    /\ input_state_callback(0, RETRO_DEVICE_JOYPAD, 0, RETRO_DEVICE_ID_JOYPAD_A)
    /\ core' = [core EXCEPT ![pc.s].st = retro_run(@, shim_ret'.val)]
    /\ xdeliv' = Delivered(TRUE)
    /\ pc' = [pc EXCEPT !.stage = "video"]
    /\ UNCHANGED rest

CoreVideoRefresh ==
    /\ pc.op = "run" /\ pc.stage = "video"
    /\ video_refresh_callback(CoreFrame(core[pc.s].st), 1, 1, 2)
    /\ xdeliv' = Delivered(CoreFrame(core[pc.s].st) # NullPtr)
    /\ pc' = [pc EXCEPT !.stage = "audio"]
    /\ UNCHANGED <<core, rest>>

CoreAudioSample ==
    /\ pc.op = "run" /\ pc.stage = "audio"
    /\ audio_sample_callback(CoreSamples[1], CoreSamples[2])
    /\ xdeliv' = Delivered(TRUE)
    /\ pc' = [pc EXCEPT !.stage = "done"]
    /\ UNCHANGED <<core, rest>>

CoreAudioSampleBatch ==
    /\ pc.op = "run" /\ pc.stage = "audio"
    /\ audio_sample_batch_callback(CoreSamples[1], 1)
    /\ xdeliv' = Delivered(TRUE)
    /\ pc' = [pc EXCEPT !.stage = "done"]
    /\ UNCHANGED <<core, rest>>

-----------------------------------------------------------------------------

\* taken: the samples the pops removed, in pop order; peak: the most samples
\* the buffer has held after any call
RingLogNew == [op |-> "new", n |-> 0, out |-> <<>>, pushed |-> <<>>, popped |-> FALSE,
               taken |-> <<>>, peak |-> 0]
FrameLogNew == [op |-> "new", stored |-> 0, last |-> <<>>]

\* no ring of its own is in use and no reader is watching
\* the twelve buttons of the joypad record
ButtonIds == RETRO_DEVICE_ID_JOYPAD_B .. RETRO_DEVICE_ID_JOYPAD_R

InputLogNew == [id \in ButtonIds |-> FALSE]

\* an f64: not-a-number, or the value v
F64(v) == [nan |-> FALSE, v |-> v]
NaN == [nan |-> TRUE, v |-> 0]

TimingNew == [reported |-> F64(0), fps |-> <<>>, read |-> <<>>]
\* the five mutexes of the bridge, all free, and the three threads, all idle
Mutexes == {"router", "pixel_format", "latest_frame", "audio", "joypad"}
Threads == {"owner", "audio", "input"}
LocksNew == [holder |-> [m \in Mutexes |-> "-"], todo |-> [t \in Threads |-> <<>>]]

ConvNew == [frame |-> <<>>, pixels |-> <<>>, rgba |-> <<>>]
AppNew == [phase |-> "off"]

\* no input is logged, no timing read, nothing converted, no application
ApartInit ==
    /\ input_log = InputLogNew
    /\ timing = TimingNew
    /\ conv = ConvNew
    /\ locks = LocksNew
    /\ app = AppNew

AsideInit ==
    /\ ring = AudioRingBuffer(AudioCap)
    /\ ring_log = RingLogNew
    /\ seen = <<>>
    /\ frame_log = FrameLogNew
    /\ ApartInit

\* the process before anything is loaded
ProcessStart ==
    /\ router = NoCallbacks
    /\ pixel_format = [s \in Sessions |-> Xrgb8888]
    /\ latest_frame = [s \in Sessions |-> <<>>]
    /\ audio = [s \in Sessions |-> <<>>]
    /\ joypad = [s \in Sessions |-> JoypadDefault]
    /\ life = [s \in Sessions |-> "unborn"]
    /\ lib_mapped = [s \in Sessions |-> FALSE]
    /\ game_loaded = [s \in Sessions |-> FALSE]
    /\ loaded_game = [s \in Sessions |-> FALSE]
    /\ core = [s \in Sessions |-> CoreDefault]
    /\ pc = Idle
    /\ ret = Ret("-", "-", "Ok")
    /\ shim_ret = NoShimRet
    /\ teardown = [s \in Sessions |-> <<>>]
    /\ xdeliv = {}
    /\ overlap = FALSE
    /\ det = DetOff

Init == ProcessStart /\ AsideInit

\* One Session, every operation of the runtime and the input thread
Solo == {"A"}

Next ==
    \/ \E s \in Solo : LoadLibraryFails(s) /\ UNCHANGED apart
    \/ \E s \in Solo, k \in 1 .. Len(Symbols) : LoadMissingSymbol(s, k)
           /\ UNCHANGED apart
    \/ \E s \in Solo, actual \in ApiVersions : LoadApiVersion(s, actual)
           /\ UNCHANGED apart
    \/ \E s \in Solo : LoadBegin(s) /\ UNCHANGED apart
    \/ \E s \in Solo, utf8 \in BOOLEAN : LoadReturn(s, utf8) /\ UNCHANGED apart
    \/ \E s \in Solo : LoadGameUnreadable(s) /\ UNCHANGED apart
    \/ \E s \in Solo : LoadGameBegin(s) /\ UNCHANGED apart
    \/ \E s \in Solo, ok \in BOOLEAN : LoadGameReturn(s, ok) /\ UNCHANGED apart
    \/ \E s \in Solo : UnloadGameBegin(s) /\ UNCHANGED apart
    \/ \E s \in Solo : UnloadGameReturn(s) /\ UNCHANGED apart
    \/ \E s \in Solo : DropBegin(s) /\ UNCHANGED apart
    \/ \E s \in Solo : DeinitReturn(s) /\ UNCHANGED apart
    \/ \E s \in Solo : RunBegin(s) /\ UNCHANGED apart
    \/ \E s \in Solo : RunReturn(s) /\ UNCHANGED apart
    \/ \E s \in Solo, willing \in BOOLEAN : Serialize(s, willing)
           /\ UNCHANGED apart
    \/ \E s \in Solo, data \in Blobs : Unserialize(s, data) /\ UNCHANGED apart
    \/ \E s \in Solo, id \in InputIds, pressed \in BOOLEAN : SetButton(s, id, pressed)
           /\ UNCHANGED apart
    \/ \E cmd \in CoreCmds, data \in {NullPtr} \cup RetroPixelFormat :
           CoreEnvironment(cmd, data) /\ UNCHANGED apart
    \/ CoreInputPoll /\ UNCHANGED apart
    \/ CoreInputState /\ UNCHANGED apart
    \/ CoreVideoRefresh /\ UNCHANGED apart
    \/ CoreAudioSample /\ UNCHANGED apart
    \/ CoreAudioSampleBatch /\ UNCHANGED apart

Spec == Init /\ [][Next]_vars

\* Two Sessions: load, load_game, run_frame and drop in any order
PairNext ==
    \/ \E s \in Sessions : LoadBegin(s) /\ UNCHANGED apart
    \/ \E s \in Sessions : LoadReturn(s, TRUE) /\ UNCHANGED apart
    \/ \E s \in Sessions : LoadGameBegin(s) /\ UNCHANGED apart
    \/ \E s \in Sessions : LoadGameReturn(s, TRUE) /\ UNCHANGED apart
    \/ \E s \in Sessions : UnloadGameReturn(s) /\ UNCHANGED apart
    \/ \E s \in Sessions : DropBegin(s) /\ UNCHANGED apart
    \/ \E s \in Sessions : DeinitReturn(s) /\ UNCHANGED apart
    \/ \E s \in Sessions : RunBegin(s) /\ UNCHANGED apart
    \/ \E s \in Sessions : RunReturn(s) /\ UNCHANGED apart
    \/ CoreEnvironment(RETRO_ENVIRONMENT_SET_PIXEL_FORMAT, Rgb565)
           /\ UNCHANGED apart
    \/ CoreInputPoll /\ UNCHANGED apart
    \/ CoreInputState /\ UNCHANGED apart
    \/ CoreVideoRefresh /\ UNCHANGED apart
    \/ CoreAudioSample /\ UNCHANGED apart
    \/ CoreAudioSampleBatch /\ UNCHANGED apart

PairSpec == Init /\ [][PairNext]_vars

-----------------------------------------------------------------------------
(* EmulatorRuntime::new and the runtime it returns.  A runtime is          *)
(* constructed by load followed by load_game; either failing, `?` returns  *)
(* the error and what was constructed so far is dropped.                    *)

\* EmulatorRuntime::new is between LibretroCore::load and load_game
in_new(s) ==
    life[s] = "live" /\ ret.op = "load" /\ ret.s = s /\ ret.val = "Ok"

\* EmulatorRuntime::new has returned Ok(Self) and the runtime is not dropped
runtime_exists(s) == life[s] = "live" /\ ~in_new(s)

\* core.load_game(rom_path)?: the file cannot be read; the core is dropped
NewLoadGameUnreadable(s) ==
    /\ pc = Idle /\ in_new(s)
    /\ ret' = Ret("load_game", s, "LoadGame")
    /\ life' = [life EXCEPT ![s] = "dropping"]
    /\ pc' = Call("deinit", s, "-", TRUE)
    /\ UNCHANGED <<router, bridge, lib_mapped, game_loaded, loaded_game, core,
                   shim_ret, history>>

NewLoadGameBegin(s) == in_new(s) /\ LoadGameBegin(s)

\* a constructor that goes on whatever load_game returned
NewLoadGameReturn_unchecked(s, ok) == LoadGameReturn(s, ok)

\* core.load_game(rom_path)?: retro_load_game has returned
NewLoadGameReturn(s, ok) ==
    IF ok THEN LoadGameReturn(s, TRUE)
    ELSE /\ pc.op = "load_game" /\ pc.s = s
         /\ ret' = [Ret("load_game", s, "LoadGame") EXCEPT !.native = FALSE]
         /\ life' = [life EXCEPT ![s] = "dropping"]
         /\ pc' = Call("deinit", s, "-", TRUE)
         /\ shim_ret' = NoShimRet
         /\ UNCHANGED <<router, bridge, lib_mapped, game_loaded, loaded_game,
                        core, history>>

\* EmulatorRuntime::run_frame
RuntimeRunFrame(s) ==
    /\ pc = Idle /\ runtime_exists(s)
    /\ pc' = Call("run", s, "poll", FALSE)
    /\ UNCHANGED <<router, bridge, host, core, ret, shim_ret, history>>

\* the owner drops the runtime
RuntimeDrop(s) == runtime_exists(s) /\ DropBegin(s)

\* the process before EmulatorRuntime::new: nothing was ever loaded, or an
\* earlier Session was loaded and has been dropped
NewInit ==
    /\ \E earlier \in BOOLEAN :
           /\ router = IF earlier THEN "B" ELSE NoCallbacks
           /\ life = [s \in Sessions |-> IF earlier /\ s = "B" THEN "dead" ELSE "unborn"]
           /\ teardown = [s \in Sessions |->
                             IF earlier /\ s = "B"
                             THEN <<[ev |-> "deinit", reg |-> "B"],
                                    [ev |-> "drop_lib", reg |-> "B"]>>
                             ELSE <<>>]
    /\ pixel_format = [s \in Sessions |-> Xrgb8888]
    /\ latest_frame = [s \in Sessions |-> <<>>]
    /\ audio = [s \in Sessions |-> <<>>]
    /\ joypad = [s \in Sessions |-> JoypadDefault]
    /\ lib_mapped = [s \in Sessions |-> FALSE]
    /\ game_loaded = [s \in Sessions |-> FALSE]
    /\ loaded_game = [s \in Sessions |-> FALSE]
    /\ core = [s \in Sessions |-> CoreDefault]
    /\ pc = Idle
    /\ ret = Ret("-", "-", "Ok")
    /\ shim_ret = NoShimRet
    /\ xdeliv = {}
    /\ overlap = FALSE
    /\ det = DetOff
    /\ AsideInit

NewNext ==
    \/ \E s \in Solo : LoadLibraryFails(s) /\ UNCHANGED apart
    \/ \E s \in Solo, k \in 1 .. Len(Symbols) : LoadMissingSymbol(s, k)
           /\ UNCHANGED apart
    \/ \E s \in Solo, actual \in ApiVersions : LoadApiVersion(s, actual)
           /\ UNCHANGED apart
    \/ \E s \in Solo : LoadBegin(s) /\ UNCHANGED apart
    \/ \E s \in Solo, utf8 \in BOOLEAN : LoadReturn(s, utf8) /\ UNCHANGED apart
    \/ \E s \in Solo : NewLoadGameUnreadable(s) /\ UNCHANGED apart
    \/ \E s \in Solo : NewLoadGameBegin(s) /\ UNCHANGED apart
    \/ \E s \in Solo, ok \in BOOLEAN : NewLoadGameReturn(s, ok)
           /\ UNCHANGED apart
    \/ \E s \in Solo : RuntimeRunFrame(s) /\ UNCHANGED apart
    \/ \E s \in Solo : RunReturn(s) /\ UNCHANGED apart
    \/ \E s \in Solo : RuntimeDrop(s) /\ UNCHANGED apart
    \/ \E s \in Solo : UnloadGameReturn(s) /\ UNCHANGED apart
    \/ \E s \in Solo : DeinitReturn(s) /\ UNCHANGED apart
    \/ \E data \in {Rgb565, _0rgb1555} :
           CoreEnvironment(RETRO_ENVIRONMENT_SET_PIXEL_FORMAT, data)
           /\ UNCHANGED apart
    \/ CoreInputPoll /\ UNCHANGED apart
    \/ CoreInputState /\ UNCHANGED apart
    \/ CoreVideoRefresh /\ UNCHANGED apart
    \/ CoreAudioSample /\ UNCHANGED apart
    \/ CoreAudioSampleBatch /\ UNCHANGED apart

NewSpec == NewInit /\ [][NewNext]_vars

-----------------------------------------------------------------------------
(* The frame rate of a runtime: read from the core's AV info in            *)
(* LibretroCore::load, resolved once in EmulatorRuntime::new.  An f64 is   *)
(* a record: NaN compares false with everything.                           *)

\* av_info.timing.fps as cores report it: negative, zero, positive, NaN
Reported == {F64(0 - 1), F64(0), F64(30), F64(DefaultFps), NaN}

\* x > 0.0 on f64
gt_zero(x) == ~x.nan /\ x.v > 0

\* a constructor that stores what the core reported
fps_of_reported(reported) == reported

\* let fps = if av_info.timing.fps > 0.0 { av_info.timing.fps } else { 60.0 }
fps_of(reported) == IF gt_zero(reported) THEN reported ELSE F64(DefaultFps)

\* LibretroCore::load returns; on Ok it has read system_av_info
FpsLoadReturn(s, utf8, r) ==
    /\ LoadReturn(s, utf8)
    /\ timing' = IF utf8 THEN [timing EXCEPT !.reported = r] ELSE timing
    /\ UNCHANGED <<input_log, conv, app, locks>>

\* EmulatorRuntime::new after load_game: Ok(Self { .. fps })
FpsNew(s, ok) ==
    /\ NewLoadGameReturn(s, ok)
    /\ timing' = IF ok THEN [timing EXCEPT !.fps = <<fps_of(timing.reported)>>]
                 ELSE timing
    /\ UNCHANGED <<input_log, conv, app, locks>>

\* EmulatorRuntime::fps
FpsRead(s) ==
    /\ runtime_exists(s)
    /\ timing' = [timing EXCEPT !.read = timing.fps]
    /\ UNCHANGED <<router, bridge, host, core, pc, ret, shim_ret, history,
                   input_log, conv, app, locks>>

\* the owner drops the runtime, its fps field with it
FpsDrop(s) ==
    /\ RuntimeDrop(s)
    /\ timing' = [timing EXCEPT !.fps = <<>>, !.read = <<>>]
    /\ UNCHANGED <<input_log, conv, app, locks>>

FpsNext ==
    \/ \E s \in Solo : LoadLibraryFails(s) /\ UNCHANGED apart
    \/ \E s \in Solo, k \in 1 .. Len(Symbols) : LoadMissingSymbol(s, k)
           /\ UNCHANGED apart
    \/ \E s \in Solo, actual \in ApiVersions : LoadApiVersion(s, actual)
           /\ UNCHANGED apart
    \/ \E s \in Solo : LoadBegin(s) /\ UNCHANGED apart
    \/ \E s \in Solo, utf8 \in BOOLEAN, r \in Reported :
           FpsLoadReturn(s, utf8, r)
    \/ \E s \in Solo : NewLoadGameUnreadable(s) /\ UNCHANGED apart
    \/ \E s \in Solo : NewLoadGameBegin(s) /\ UNCHANGED apart
    \/ \E s \in Solo, ok \in BOOLEAN : FpsNew(s, ok)
    \/ \E s \in Solo : RuntimeRunFrame(s) /\ UNCHANGED apart
    \/ \E s \in Solo : RunReturn(s) /\ UNCHANGED apart
    \/ \E s \in Solo : FpsDrop(s)
    \/ \E s \in Solo : FpsRead(s)
    \/ \E s \in Solo : UnloadGameReturn(s) /\ UNCHANGED apart
    \/ \E s \in Solo : DeinitReturn(s) /\ UNCHANGED apart
    \/ \E data \in {Rgb565, _0rgb1555} :
           CoreEnvironment(RETRO_ENVIRONMENT_SET_PIXEL_FORMAT, data)
           /\ UNCHANGED apart
    \/ CoreInputPoll /\ UNCHANGED apart
    \/ CoreInputState /\ UNCHANGED apart
    \/ CoreVideoRefresh /\ UNCHANGED apart
    \/ CoreAudioSample /\ UNCHANGED apart
    \/ CoreAudioSampleBatch /\ UNCHANGED apart

FpsSpec == NewInit /\ [][FpsNext]_vars

-----------------------------------------------------------------------------
(* The shims on their own: any router state, any arguments *)

ShimInit ==
    /\ router \in {NoCallbacks} \cup Solo
    /\ pixel_format = [s \in Sessions |-> Xrgb8888]
    /\ latest_frame = [s \in Sessions |-> <<>>]
    /\ audio = [s \in Sessions |-> <<>>]
    /\ \E pressed \in BOOLEAN :
           joypad = [s \in Sessions |->
                        set_button(JoypadDefault, RETRO_DEVICE_ID_JOYPAD_A, pressed)]
    /\ life = [s \in Sessions |-> "unborn"]
    /\ lib_mapped = [s \in Sessions |-> FALSE]
    /\ game_loaded = [s \in Sessions |-> FALSE]
    /\ loaded_game = [s \in Sessions |-> FALSE]
    /\ core = [s \in Sessions |-> CoreDefault]
    /\ pc = Idle
    /\ ret = Ret("-", "-", "Ok")
    /\ shim_ret = NoShimRet
    /\ teardown = [s \in Sessions |-> <<>>]
    /\ xdeliv = {}
    /\ overlap = FALSE
    /\ det = DetOff
    /\ AsideInit

outside == <<router, host, core, pc, ret, history>>

ShimEnvironment(cmd, data) ==
    environment_callback(cmd, data) /\ UNCHANGED outside

ShimVideoRefresh(data, width, height, pitch) ==
    video_refresh_callback(data, width, height, pitch) /\ UNCHANGED outside

ShimAudioSample(left, right) ==
    audio_sample_callback(left, right) /\ UNCHANGED outside

ShimAudioSampleBatch(data, frames) ==
    audio_sample_batch_callback(data, frames) /\ UNCHANGED outside

ShimInputPoll ==
    input_poll_callback /\ UNCHANGED outside

ShimInputState(port, device, index, id) ==
    input_state_callback(port, device, index, id) /\ UNCHANGED outside

ShimNext ==
    \/ \E cmd \in Cmds, data \in {NullPtr} \cup RetroPixelFormat :
           ShimEnvironment(cmd, data) /\ UNCHANGED apart
    \/ \E data \in {NullPtr, 16}, width \in 0 .. 1, height \in 0 .. MaxDim,
          pitch \in 0 .. MaxDim : ShimVideoRefresh(data, width, height, pitch)
           /\ UNCHANGED apart
    \/ \E left \in 1 .. 2, right \in {2} : ShimAudioSample(left, right)
           /\ UNCHANGED apart
    \/ \E data \in {NullPtr, 1}, frames \in 0 .. 1 : ShimAudioSampleBatch(data, frames)
           /\ UNCHANGED apart
    \/ ShimInputPoll /\ UNCHANGED apart
    \/ \E port \in 0 .. 1, device \in 1 .. 2, index \in 0 .. 1,
          id \in {RETRO_DEVICE_ID_JOYPAD_B, RETRO_DEVICE_ID_JOYPAD_A, 12} :
           ShimInputState(port, device, index, id) /\ UNCHANGED apart

ShimSpec == ShimInit /\ [][ShimNext]_vars

-----------------------------------------------------------------------------
(* An AudioRingBuffer on its own: new(capacity), then push_samples and     *)
(* pop_samples in any order.                                                *)

process == <<router, pixel_format, latest_frame, audio, joypad, life, lib_mapped,
             game_loaded, loaded_game, core, pc, ret, shim_ret, teardown, xdeliv,
             overlap, det>>

Samples == {1, 2}
Batches == UNION {[1 .. n -> Samples] : n \in 0 .. MaxBatch}

RingInit ==
    /\ ProcessStart
    /\ \E capacity \in 0 .. MaxCapacity : ring = AudioRingBuffer(capacity)
    /\ ring_log = RingLogNew
    /\ seen = <<>>
    /\ frame_log = FrameLogNew
    /\ ApartInit

\* AudioRingBuffer::push_samples
RingPush(samples) ==
    /\ Len(ring_log.pushed) + Len(samples) <= MaxPushed
    /\ ring' = [ring EXCEPT !.inner = push_samples(@, ring.capacity, samples)]
    /\ ring_log' = [ring_log EXCEPT !.op = "push", !.pushed = @ \o samples,
                                    !.peak = IF Len(ring'.inner) > @
                                             THEN Len(ring'.inner) ELSE @]
    /\ UNCHANGED <<process, seen, frame_log>>

\* AudioRingBuffer::pop_samples on a slice of n samples
RingPop(n) ==
    /\ LET r == pop_samples(ring.inner, n)
       IN  /\ ring' = [ring EXCEPT !.inner = r.inner]
           /\ ring_log' = [ring_log EXCEPT
                  !.op = "pop", !.n = n, !.out = r.out, !.popped = TRUE,
                  !.taken = @ \o SubSeq(r.out, 1, Len(ring.inner) - Len(r.inner))]
    /\ UNCHANGED <<process, seen, frame_log>>

RingNext ==
    \/ \E samples \in Batches : RingPush(samples) /\ UNCHANGED apart
    \/ \E n \in 0 .. MaxOut : RingPop(n) /\ UNCHANGED apart

RingSpec == RingInit /\ [][RingNext]_vars

-----------------------------------------------------------------------------
(* A runtime running frames while a reader on another thread calls         *)
(* latest_frame().                                                          *)

\* the process once EmulatorRuntime::new has returned the runtime of Session A
FrameInit ==
    /\ router = "A"
    /\ pixel_format = [s \in Sessions |-> Xrgb8888]
    /\ latest_frame = [s \in Sessions |-> <<>>]
    /\ audio = [s \in Sessions |-> <<>>]
    /\ joypad = [s \in Sessions |-> JoypadDefault]
    /\ life = [s \in Sessions |-> IF s = "A" THEN "live" ELSE "unborn"]
    /\ lib_mapped = [s \in Sessions |-> s = "A"]
    /\ game_loaded = [s \in Sessions |-> s = "A"]
    /\ loaded_game = [s \in Sessions |-> s = "A"]
    /\ core = [s \in Sessions |->
                  IF s = "A" THEN [inited |-> TRUE, game |-> TRUE, st |-> 0]
                  ELSE CoreDefault]
    /\ pc = Idle
    /\ ret = Ret("load_game", "A", "Ok")
    /\ shim_ret = NoShimRet
    /\ teardown = [s \in Sessions |-> <<>>]
    /\ xdeliv = {}
    /\ overlap = FALSE
    /\ det = DetOff
    /\ AsideInit

FrameRunFrame(s) == frame_log.stored < MaxFrames /\ RuntimeRunFrame(s)

\* video_refresh_callback reaches the closure, which stores a frame
stores(data, width, height) ==
    data # NullPtr /\ width # 0 /\ height # 0 /\ Registered

\* the core calls video_refresh during retro_run; the history counts the store
FrameVideoRefresh ==
    /\ pc.op = "run" /\ pc.stage = "video"
    /\ video_refresh_callback(CoreFrame(core[pc.s].st), 1, 1, 2)
    /\ xdeliv' = Delivered(CoreFrame(core[pc.s].st) # NullPtr)
    /\ pc' = [pc EXCEPT !.stage = "audio"]
    /\ frame_log' = IF stores(CoreFrame(core[pc.s].st), 1, 1)
                    THEN [op |-> "store", stored |-> frame_log.stored + 1,
                          last |-> latest_frame'[with_callbacks]]
                    ELSE frame_log
    /\ UNCHANGED <<core, router, host, ret, teardown, overlap, det, ring,
                   ring_log, seen>>

\* a reader that keeps the first frame it ever got
latest_frame_cached(s) == IF seen # <<>> THEN seen ELSE latest_frame[s]

\* EmulatorRuntime::latest_frame: a clone of the cell's content
latest_frame_read(s) == latest_frame[s]

\* the reader thread calls latest_frame()
LatestFrame(s) ==
    /\ runtime_exists(s)
    /\ seen' = latest_frame_read(s)
    /\ frame_log' = [frame_log EXCEPT !.op = "read"]
    /\ UNCHANGED <<process, ring, ring_log>>

FrameNext ==
    \/ \E s \in Solo : FrameRunFrame(s) /\ UNCHANGED apart
    \/ CoreInputPoll /\ UNCHANGED apart
    \/ CoreInputState /\ UNCHANGED apart
    \/ FrameVideoRefresh /\ UNCHANGED apart
    \/ CoreAudioSample /\ UNCHANGED apart
    \/ CoreAudioSampleBatch /\ UNCHANGED apart
    \/ \E s \in Solo : RunReturn(s) /\ UNCHANGED apart
    \/ \E s \in Solo : LatestFrame(s) /\ UNCHANGED apart
    \/ \E s \in Solo, pressed \in BOOLEAN :
           SetButton(s, RETRO_DEVICE_ID_JOYPAD_A, pressed) /\ UNCHANGED apart

FrameSpec == FrameInit /\ [][FrameNext]_vars

-----------------------------------------------------------------------------
(* The input thread writes the joypad record of an existing runtime while  *)
(* the core polls it through the input-state shim.                          *)

\* ids the input thread writes: four buttons and an unknown id
WrittenIds == {RETRO_DEVICE_ID_JOYPAD_B, RETRO_DEVICE_ID_JOYPAD_UP,
               RETRO_DEVICE_ID_JOYPAD_A, RETRO_DEVICE_ID_JOYPAD_R, 12}

\* handle_keyboard: set_button on the runtime's joypad record
InputSetButton(s, id, pressed) ==
    /\ SetButton(s, id, pressed)
    /\ input_log' = IF id \in ButtonIds THEN [input_log EXCEPT ![id] = pressed]
                    ELSE input_log
    /\ UNCHANGED <<timing, conv, app, locks>>

\* the core asks for one button through input_state_callback
InputPoll(port, device, index, id) ==
    ShimInputState(port, device, index, id) /\ UNCHANGED apart

InputNext ==
    \/ \E s \in Solo, id \in WrittenIds, pressed \in BOOLEAN :
           InputSetButton(s, id, pressed)
    \/ \E port \in 0 .. 1, device \in 1 .. 2, index \in 0 .. 1,
          id \in ButtonIds \cup {12} : InputPoll(port, device, index, id)

InputSpec == FrameInit /\ [][InputNext]_vars

-----------------------------------------------------------------------------
(* convert_frame_to_rgba (playbyte_app): a VideoFrame to 8-bit RGBA.  The  *)
(* frames are crafted from known pixel values, laid out in rows with       *)
(* padding.                                                                 *)

RECURSIVE BitOr(_, _)
\* a | b on unsigned integers
BitOr(a, b) ==
    IF a = 0 THEN b
    ELSE IF b = 0 THEN a
    ELSE (IF a % 2 = 1 \/ b % 2 = 1 THEN 1 ELSE 0) + 2 * BitOr(a \div 2, b \div 2)

RECURSIVE BitAnd(_, _)
\* a & b on unsigned integers
BitAnd(a, b) ==
    IF a = 0 \/ b = 0 THEN 0
    ELSE (IF a % 2 = 1 /\ b % 2 = 1 THEN 1 ELSE 0) + 2 * BitAnd(a \div 2, b \div 2)

\* v << n on u8, v >> n
shl8(v, n) == (v * 2 ^ n) % 256
shr(v, n) == v \div 2 ^ n

\* u16::from_le_bytes([lo, hi])
from_le_bytes(lo, hi) == lo + 256 * hi

\* a 5-bit channel scaled by its top bits only
rgb5_shifted(v) == shl8(v, 3)

\* (r << 3) | (r >> 2) and (g << 2) | (g >> 4)
rgb5(v) == BitOr(shl8(v, 3), shr(v, 2))
rgb6(v) == BitOr(shl8(v, 2), shr(v, 4))

bytes_per_pixel(format) == IF format = Xrgb8888 THEN 4 ELSE 2

\* one output byte: channel c (0 = R, 1 = G, 2 = B, 3 = A) of pixel x of row
pixel_channel(format, row, x, c) ==
    IF c = 3 THEN 255
    ELSE IF format = Xrgb8888
    THEN LET src == x * 4
             b == row[src + 1]
             g == row[src + 2]
             r == row[src + 3]
         IN  CASE c = 0 -> r [] c = 1 -> g [] OTHER -> b
    ELSE LET src == x * 2
             value == from_le_bytes(row[src + 1], row[src + 2])
         IN  IF format = Rgb565
             THEN LET r == BitAnd(shr(value, 11), 31)
                      g == BitAnd(shr(value, 5), 63)
                      b == BitAnd(value, 31)
                  IN  CASE c = 0 -> rgb5(r) [] c = 1 -> rgb6(g) [] OTHER -> rgb5(b)
             ELSE LET r == BitAnd(shr(value, 10), 31)
                      g == BitAnd(shr(value, 5), 31)
                      b == BitAnd(value, 31)
                  IN  CASE c = 0 -> rgb5(r) [] c = 1 -> rgb5(g) [] OTHER -> rgb5(b)

convert_frame_to_rgba(frame) ==
    LET width == frame.width
        height == frame.height
        out == [i \in 1 .. width * height * 4 |-> 0]
        min_pitch == width * bytes_per_pixel(frame.pixel_format)
    IN  IF width = 0 \/ height = 0 THEN <<>>
        ELSE IF frame.pitch < min_pitch THEN out
        ELSE IF Len(frame.data) < frame.pitch * height THEN out
        ELSE [dst \in 1 .. width * height * 4 |->
                LET k == (dst - 1) \div 4
                    y == k \div width
                    x == k % width
                    row_start == y * frame.pitch
                    row == SubSeq(frame.data, row_start + 1, row_start + min_pitch)
                IN  pixel_channel(frame.pixel_format, row, x, (dst - 1) % 4)]

\* known pixel values: 16-bit words, and B, G, R, X bytes
Words == <<0, 65535, 63488, 2016, 31, 31744, 992, 32768, 2081, 4660>>
Quads == <<<<0, 0, 0, 0>>, <<255, 255, 255, 255>>, <<255, 0, 0, 0>>,
           <<0, 255, 0, 0>>, <<0, 0, 255, 0>>, <<0, 0, 0, 255>>,
           <<1, 2, 3, 4>>, <<18, 52, 86, 120>>, <<128, 64, 32, 16>>,
           <<7, 200, 99, 1>>>>
Palette(format) == IF format = Xrgb8888 THEN Quads ELSE Words

\* the bytes of a known pixel value in a frame buffer
pixel_bytes(format, p) ==
    IF format = Xrgb8888 THEN p ELSE <<p % 256, p \div 256>>

RECURSIVE Flatten(_)
Flatten(seqs) == IF seqs = <<>> THEN <<>> ELSE Head(seqs) \o Flatten(Tail(seqs))

\* width * height known pixels, row by row, walking the palette from start
CraftedPixels(format, width, height, start, stride) ==
    [k \in 1 .. width * height |->
        Palette(format)[((start + (k - 1) * stride) % Len(Palette(format))) + 1]]

\* a frame holding pixels in rows of pitch = width * bytes-per-pixel + pad
\* bytes; pad < 0 cuts the rows short, extra < 0 cuts the buffer short
CraftedFrame(format, width, height, pad, extra, pixels) ==
    LET pitch == width * bytes_per_pixel(format) + pad
        row(y) == LET full == Flatten([x \in 1 .. width |->
                                 pixel_bytes(format, pixels[(y - 1) * width + x])])
                  IN  IF pad < 0 THEN SubSeq(full, 1, pitch)
                      ELSE full \o [i \in 1 .. pad |-> 170]
        rows == Flatten([y \in 1 .. height |-> row(y)])
        data == IF extra < 0 THEN SubSeq(rows, 1, Len(rows) - 1)
                ELSE rows \o [i \in 1 .. extra |-> 85]
    IN  VideoFrame(width, height, pitch, format, data)

Crafted ==
    {[frame |-> <<CraftedFrame(format, width, height, pad, extra,
                      CraftedPixels(format, width, height, start, stride))>>,
      pixels |-> CraftedPixels(format, width, height, start, stride),
      rgba |-> <<>>] :
        format \in RetroPixelFormat, width \in 0 .. MaxDim, height \in 0 .. MaxDim,
        pad \in (0 - 1) .. 1, extra \in (0 - 1) .. 1,
        start \in 0 .. Len(Words) - 1, stride \in {1, 3}}

PixelInit ==
    /\ ProcessStart
    /\ ring = AudioRingBuffer(AudioCap)
    /\ ring_log = RingLogNew
    /\ seen = <<>>
    /\ frame_log = FrameLogNew
    /\ input_log = InputLogNew
    /\ timing = TimingNew
    /\ app = AppNew
    /\ conv \in {c \in Crafted : c.frame[1].pitch >= 0}
    /\ locks = LocksNew

\* update_video_texture / encode_thumbnail: convert_frame_to_rgba(frame)
ConvertFrame ==
    /\ conv.frame # <<>> /\ conv.rgba = <<>>
    /\ conv' = [conv EXCEPT !.rgba = <<convert_frame_to_rgba(conv.frame[1])>>]
    /\ UNCHANGED <<router, bridge, host, core, pc, ret, shim_ret, history,
                   input_log, timing, app, locks>>

PixelNext == ConvertFrame

PixelSpec == PixelInit /\ [][PixelNext]_vars

-----------------------------------------------------------------------------
(* The application (playbyte_app): the feed, the one runtime slot, the     *)
(* session autosaves and the Byte store.  A handler runs to its end on the *)
(* event loop.  A runtime is the system_info it reported; a state blob     *)
(* carries, for the properties only, the system_info of its producer.      *)

\* Bytes created in one run
MaxBytes == 1

\* core library files of the cores directory and what a library may report
CoreFiles == {"corex"}
SystemInfos ==
    {[library_name |-> "corex", library_version |-> "1"],
     [library_name |-> "corex", library_version |-> "2"],
     [library_name |-> "corey", library_version |-> "1"]}

Byte(byte_id, core_id, core_semver, rom_sha1) ==
    [kind |-> "Byte", byte_id |-> byte_id, core_id |-> core_id,
     core_semver |-> core_semver, rom_sha1 |-> rom_sha1]

RomFallback(rom_sha1, core_id) ==
    [kind |-> "RomFallback", rom_sha1 |-> rom_sha1, core_id |-> core_id]

\* FeedItem::session_autosave_key
session_autosave_key(item) ==
    IF item.kind = "Byte" THEN <<"Byte", item.byte_id>>
    ELSE <<"Rom", item.rom_sha1>>

\* FeedController::current, next, prev, select (the index they leave)
current(a) ==
    IF a.current_index < Len(a.items) THEN <<a.items[a.current_index + 1]>>
    ELSE <<>>

\* a next that goes round to the first item
next_wrapping(a) ==
    IF a.items = <<>> THEN a.current_index
    ELSE (a.current_index + 1) % Len(a.items)

next(a) ==
    IF a.items = <<>> THEN a.current_index
    ELSE IF a.current_index + 1 < Len(a.items) - 1 THEN a.current_index + 1
    ELSE Len(a.items) - 1

prev(a) ==
    IF a.items = <<>> THEN a.current_index
    ELSE IF a.current_index > 0 THEN a.current_index - 1
    ELSE a.current_index

select(a, index) ==
    IF index < Len(a.items) THEN index ELSE a.current_index

\* RuntimeLoad, or the error build_runtime_for_current returns; calls are
\* the unserialize calls made on the way
RuntimeLoad(runtime, meta, calls) ==
    [ok |-> TRUE, runtime |-> <<runtime>>, meta |-> <<meta>>, calls |-> calls]
LoadFailed(calls) ==
    [ok |-> FALSE, runtime |-> <<>>, meta |-> <<>>, calls |-> calls]

RuntimeMetadata(core_id, core_version, rom_sha1) ==
    [core_id |-> core_id, core_version |-> core_version, rom_sha1 |-> rom_sha1]

\* a builder that takes the identity from the feed item
build_runtime_meta_from_item(runtime, item) ==
    RuntimeMetadata(item.core_id, runtime.info.library_version, item.rom_sha1)

build_runtime_meta_from_runtime(runtime, item) ==
    RuntimeMetadata(runtime.info.library_name, runtime.info.library_version,
                    item.rom_sha1)

\* one call of EmulatorRuntime::unserialize: the runtime and the blob
UnserializeCall(runtime, state, via) ==
    [info |-> runtime.info, by |-> state.by, via |-> via]

\* LocalByteStore::load_state
load_state(a, byte_id) ==
    (CHOOSE b \in a.store : b.metadata.byte_id = byte_id).state

\* FeedController::build_runtime_for_current; new_ok: the core and the ROM
\* are found and EmulatorRuntime::new returns Ok; unser_ok: unserialize
\* returns Ok
build_runtime_for_current(a, new_ok, unser_ok) ==
    IF current(a) = <<>> THEN LoadFailed(<<>>)
    ELSE LET item == current(a)[1]
         IN  IF item.core_id \notin CoreFiles \/ ~new_ok THEN LoadFailed(<<>>)
             ELSE LET runtime == [info |-> a.installed[item.core_id]]
                  IN  IF item.kind = "Byte"
                      THEN IF runtime.info.library_name # item.core_id
                           THEN LoadFailed(<<>>)
                           ELSE IF runtime.info.library_version # item.core_semver
                           THEN LoadFailed(<<>>)
                           ELSE LET call == UnserializeCall(runtime,
                                                load_state(a, item.byte_id), "byte")
                                IN  IF ~unser_ok THEN LoadFailed(<<call>>)
                                    ELSE RuntimeLoad(runtime,
                                            RuntimeMetadata(item.core_id,
                                                item.core_semver, item.rom_sha1),
                                            <<call>>)
                      ELSE RuntimeLoad(runtime,
                              build_runtime_meta_from_runtime(runtime, item), <<>>)

\* HashMap::insert and get on session_autosaves
insert(map, key, state) ==
    [k \in DOMAIN map \cup {key} |-> IF k = key THEN state ELSE map[k]]

\* store_session_autosave
store_session_autosave(a, key, willing) ==
    IF key = <<>> \/ a.runtime = <<>> \/ ~willing THEN a
    ELSE [a EXCEPT !.session_autosaves =
             insert(@, key[1], [by |-> a.runtime[1].info])]

\* restore_session_autosave: the unserialize calls it makes on the load
restore_session_autosave(a, key, load) ==
    IF key = <<>> THEN <<>>
    ELSE IF key[1] \notin DOMAIN a.session_autosaves THEN <<>>
    ELSE <<UnserializeCall(load.runtime[1], a.session_autosaves[key[1]],
                           "autosave")>>

\* navigate_feed and select_feed_index once the index has changed to index
swap_runtime(a, index, willing, new_ok, unser_ok) ==
    LET leaving_key == IF current(a) = <<>> THEN <<>>
                       ELSE <<session_autosave_key(current(a)[1])>>
        moved == [a EXCEPT !.current_index = index]
        stored == store_session_autosave(moved, leaving_key, willing)
        dropped == [stored EXCEPT !.runtime = <<>>, !.runtime_meta = <<>>]
        result == build_runtime_for_current(dropped, new_ok, unser_ok)
        entering_key == IF current(dropped) = <<>> THEN <<>>
                        ELSE <<session_autosave_key(current(dropped)[1])>>
    IN  IF result.ok
        THEN [dropped EXCEPT
                 !.calls = result.calls
                             \o restore_session_autosave(dropped, entering_key, result),
                 !.runtime = result.runtime,
                 !.runtime_meta = result.meta]
        ELSE [dropped EXCEPT !.calls = result.calls]

\* what only the application steps touch is app
AppFrame ==
    UNCHANGED <<router, bridge, host, core, pc, ret, shim_ret, history,
                input_log, timing, conv, locks>>

\* State::new: the runtime of the configured core and ROM when there is no
\* feed, of the current feed item otherwise
StateNew(new_ok, unser_ok) ==
    /\ app.phase = "off"
    /\ LET result ==
             IF ~app.feed
             THEN IF new_ok
                  THEN LET runtime == [info |-> app.installed["corex"]]
                       IN  RuntimeLoad(runtime,
                              build_runtime_meta_from_runtime(runtime,
                                  RomFallback("rom1", "corex")), <<>>)
                  ELSE LoadFailed(<<>>)
             ELSE IF app.items = <<>> THEN LoadFailed(<<>>)
             ELSE build_runtime_for_current(app, new_ok, unser_ok)
       IN  app' = [app EXCEPT !.phase = "on", !.calls = result.calls,
                              !.runtime = result.runtime,
                              !.runtime_meta = result.meta]
    /\ AppFrame

\* navigate_feed
NavigateFeed(delta, willing, new_ok, unser_ok) ==
    /\ app.phase = "on" /\ app.feed
    /\ LET index == IF delta > 0 THEN next(app)
                    ELSE IF delta < 0 THEN prev(app) ELSE app.current_index
       IN  /\ index # app.current_index
           /\ app' = swap_runtime(app, index, willing, new_ok, unser_ok)
    /\ AppFrame

\* select_feed_index
SelectFeedIndex(index, willing, new_ok, unser_ok) ==
    /\ app.phase = "on" /\ app.feed
    /\ select(app, index) # app.current_index
    /\ app' = swap_runtime(app, select(app, index), willing, new_ok, unser_ok)
    /\ AppFrame

\* FeedController::add_byte
add_byte(a, metadata) ==
    LET kept == SelectSeq(a.items,
                    LAMBDA item : ~(item.kind = "RomFallback"
                                    /\ item.rom_sha1 = metadata.rom_sha1))
        items == Append(kept, Byte(metadata.byte_id, metadata.core_id,
                                   metadata.core_semver, metadata.rom_sha1))
    IN  [a EXCEPT !.items = items, !.current_index = Len(items) - 1]

\* create_byte; captured: a frame is there, serialize, the thumbnail and
\* save_byte succeed
create_byte(a, captured) ==
    IF a.runtime = <<>> \/ a.runtime_meta = <<>> \/ ~captured THEN a
    ELSE LET meta == a.runtime_meta[1]
             state == [by |-> a.runtime[1].info]
             byte_id == <<"uuid", Cardinality(a.store)>>
             metadata == [byte_id |-> byte_id, core_id |-> meta.core_id,
                          core_semver |-> meta.core_version,
                          rom_sha1 |-> meta.rom_sha1]
             saved == [a EXCEPT !.store = @ \cup {[metadata |-> metadata,
                                                    state |-> state,
                                                    created |-> TRUE]}]
         IN  IF a.feed THEN add_byte(saved, metadata) ELSE saved

CreateByte(captured) ==
    /\ app.phase = "on"
    /\ Cardinality({b \in app.store : b.created}) < MaxBytes
    /\ app' = [create_byte(app, captured) EXCEPT !.calls = <<>>]
    /\ AppFrame

\* outside the program: the library file of a core is replaced
CoreReplaced(file, info) ==
    /\ app.installed[file] # info
    /\ app' = [app EXCEPT !.installed[file] = info, !.calls = <<>>]
    /\ AppFrame

\* a Byte saved by an earlier run, and the two ROMs of the library
StoredByte ==
    [metadata |-> [byte_id |-> <<"uuid", 0>>, core_id |-> "corex",
                   core_semver |-> "1", rom_sha1 |-> "rom1"],
     state |-> [by |-> [library_name |-> "corex", library_version |-> "1"]],
     created |-> FALSE]

\* FeedController::load and build_feed_items: Bytes first, then the ROMs no
\* Byte covers
AppStarts ==
    {[phase |-> "off", feed |-> feed, items |-> items, current_index |-> 0,
      store |-> store, runtime |-> <<>>, runtime_meta |-> <<>>,
      session_autosaves |-> <<>>, installed |-> [f \in CoreFiles |-> info],
      calls |-> <<>>] :
        feed \in BOOLEAN, info \in SystemInfos,
        store \in {{}, {StoredByte}},
        items \in {<<>>, <<RomFallback("rom1", "corex"), RomFallback("rom2", "corex")>>,
                   <<Byte(<<"uuid", 0>>, "corex", "1", "rom1"),
                     RomFallback("rom2", "corex")>>}}

AppInit ==
    /\ ProcessStart
    /\ ring = AudioRingBuffer(AudioCap)
    /\ ring_log = RingLogNew
    /\ seen = <<>>
    /\ frame_log = FrameLogNew
    /\ input_log = InputLogNew
    /\ timing = TimingNew
    /\ conv = ConvNew
    /\ locks = LocksNew
    /\ app \in {a \in AppStarts :
                  /\ (a.items # <<>> /\ a.items[1].kind = "Byte") <=> a.store # {}
                  /\ ~a.feed => a.items = <<>>}

AppNext ==
    \/ \E new_ok \in BOOLEAN, unser_ok \in BOOLEAN : StateNew(new_ok, unser_ok)
    \/ \E delta \in {0 - 1, 0, 1}, willing \in BOOLEAN, new_ok \in BOOLEAN,
          unser_ok \in BOOLEAN : NavigateFeed(delta, willing, new_ok, unser_ok)
    \/ \E index \in 0 .. 2, willing \in BOOLEAN, new_ok \in BOOLEAN,
          unser_ok \in BOOLEAN : SelectFeedIndex(index, willing, new_ok, unser_ok)
    \/ \E captured \in BOOLEAN : CreateByte(captured)
    \/ \E file \in CoreFiles, info \in SystemInfos : CoreReplaced(file, info)

AppSpec == AppInit /\ [][AppNext]_vars

-----------------------------------------------------------------------------
(* The application's runtime slot over the Sessions: State::new fills it,  *)
(* navigate_feed and select_feed_index store an autosave, clear the slot   *)
(* and build the next runtime.  app.phase is the place in the handler,     *)
(* app.slot is self.runtime, app.held the Sessions the slot has held.      *)

SwapNew == [phase |-> "off", slot |-> <<>>, building |-> <<>>, held |-> {}]

others == <<input_log, timing, conv, locks>>

\* a swap that leaves the old runtime in the slot
keep_runtime(slot) == slot

\* self.runtime = None
clear_runtime(slot) == <<>>

\* the handler is over: the slot keeps what it has
handler_done == [app EXCEPT !.phase = "on", !.building = <<>>]

\* build_runtime_for_current may start: State::new, or the slot is cleared
may_build(s) ==
    /\ app.phase \in {"off", "cleared"}
    /\ pc = Idle /\ life[s] = "unborn"
    /\ s = "B" => life["A"] # "unborn"

\* EmulatorRuntime::new fails before retro_init
SwapLoadFails(s) ==
    /\ may_build(s)
    /\ \/ LoadLibraryFails(s)
       \/ \E k \in 1 .. Len(Symbols) : LoadMissingSymbol(s, k)
       \/ \E actual \in ApiVersions : LoadApiVersion(s, actual)
    /\ app' = handler_done
    /\ UNCHANGED others

SwapLoadBegin(s) ==
    /\ may_build(s)
    /\ LoadBegin(s)
    /\ app' = [app EXCEPT !.phase = "build", !.building = <<s>>]
    /\ UNCHANGED others

SwapLoadReturn(s, utf8) ==
    /\ app.phase = "build" /\ app.building = <<s>>
    /\ LoadReturn(s, utf8)
    /\ app' = IF utf8 THEN app ELSE handler_done
    /\ UNCHANGED others

\* load_game fails: the core is dropped inside EmulatorRuntime::new
SwapLoadGameFails(s) ==
    /\ app.phase = "build" /\ app.building = <<s>>
    /\ NewLoadGameUnreadable(s) \/ NewLoadGameReturn(s, FALSE)
    /\ app' = [app EXCEPT !.phase = "failing"]
    /\ UNCHANGED others

SwapLoadGameBegin(s) ==
    /\ app.phase = "build" /\ app.building = <<s>>
    /\ NewLoadGameBegin(s)
    /\ UNCHANGED apart

\* EmulatorRuntime::new has returned Ok
SwapLoadGameReturn(s) ==
    /\ app.phase = "build" /\ app.building = <<s>>
    /\ NewLoadGameReturn(s, TRUE)
    /\ app' = [app EXCEPT !.phase = "built"]
    /\ UNCHANGED others

\* restore_session_autosave on the runtime just built
SwapRestore(s, data) ==
    /\ app.phase = "built" /\ app.building = <<s>>
    /\ Unserialize(s, data)
    /\ app' = [app EXCEPT !.phase = "restored"]
    /\ UNCHANGED others

\* apply_runtime_load: self.runtime = Some(load.runtime); a runtime still
\* in the slot is dropped by the assignment
SwapApply(s) ==
    /\ app.phase \in {"built", "restored"} /\ app.building = <<s>>
    /\ IF app.slot = <<>>
       THEN /\ pc = Idle
            /\ UNCHANGED <<router, bridge, host, core, pc, ret, shim_ret, history>>
       ELSE DropBegin(app.slot[1])
    /\ app' = [app EXCEPT !.phase = "on", !.building = <<>>, !.slot = <<s>>,
                          !.held = @ \cup {s}]
    /\ UNCHANGED others

\* store_session_autosave(leaving_key): the index has changed
SwapStore(s, willing) ==
    /\ app.phase = "on" /\ app.slot = <<s>>
    /\ \E t \in Sessions : life[t] = "unborn"
    /\ Serialize(s, willing)
    /\ app' = [app EXCEPT !.phase = "stored"]
    /\ UNCHANGED others

\* self.audio_stream = None; self.runtime = None; self.runtime_meta = None
SwapClear ==
    /\ \/ app.phase = "stored"
       \/ /\ app.phase = "on" /\ app.slot = <<>>
          /\ \E t \in Sessions : life[t] = "unborn"
    /\ LET slot == clear_runtime(app.slot)
       IN  /\ IF app.slot # <<>> /\ slot = <<>>
              THEN DropBegin(app.slot[1])
              ELSE /\ pc = Idle
                   /\ UNCHANGED <<router, bridge, host, core, pc, ret, shim_ret,
                                  history>>
           /\ app' = [app EXCEPT !.phase = "cleared", !.slot = slot]
    /\ UNCHANGED others

\* the native calls of a drop return
SwapUnloadGameReturn(s) == UnloadGameReturn(s) /\ UNCHANGED apart

SwapDeinitReturn(s) ==
    /\ DeinitReturn(s)
    /\ app' = IF app.phase = "failing" THEN handler_done ELSE app
    /\ UNCHANGED others

\* update: the runtime of the slot runs a frame
SwapRunFrame(s) ==
    /\ app.phase = "on" /\ app.slot = <<s>>
    /\ RuntimeRunFrame(s)
    /\ UNCHANGED apart

SwapInit ==
    /\ ProcessStart
    /\ ring = AudioRingBuffer(AudioCap)
    /\ ring_log = RingLogNew
    /\ seen = <<>>
    /\ frame_log = FrameLogNew
    /\ input_log = InputLogNew
    /\ timing = TimingNew
    /\ conv = ConvNew
    /\ locks = LocksNew
    /\ app = SwapNew

SwapNext ==
    \/ \E s \in Sessions : SwapLoadFails(s)
    \/ \E s \in Sessions : SwapLoadBegin(s)
    \/ \E s \in Sessions, utf8 \in BOOLEAN : SwapLoadReturn(s, utf8)
    \/ \E s \in Sessions : SwapLoadGameFails(s)
    \/ \E s \in Sessions : SwapLoadGameBegin(s)
    \/ \E s \in Sessions : SwapLoadGameReturn(s)
    \/ \E s \in Sessions, data \in Blobs : SwapRestore(s, data)
    \/ \E s \in Sessions : SwapApply(s)
    \/ \E s \in Sessions, willing \in BOOLEAN : SwapStore(s, willing)
    \/ SwapClear
    \/ \E s \in Sessions : SwapUnloadGameReturn(s)
    \/ \E s \in Sessions : SwapDeinitReturn(s)
    \/ \E s \in Sessions : SwapRunFrame(s)
    \/ \E s \in Sessions : RunReturn(s) /\ UNCHANGED apart
    \/ \E data \in {Rgb565, _0rgb1555} :
           CoreEnvironment(RETRO_ENVIRONMENT_SET_PIXEL_FORMAT, data)
           /\ UNCHANGED apart
    \/ CoreInputPoll /\ UNCHANGED apart
    \/ CoreInputState /\ UNCHANGED apart
    \/ CoreVideoRefresh /\ UNCHANGED apart
    \/ CoreAudioSample /\ UNCHANGED apart
    \/ CoreAudioSampleBatch /\ UNCHANGED apart

SwapSpec == SwapInit /\ [][SwapNext]_vars

-----------------------------------------------------------------------------
(* Two Sessions, B created after A, whose cores ask for every pixel format *)

FormatNext ==
    \/ \E s \in Sessions : (s = "B" => life["A"] # "unborn") /\ LoadBegin(s)
           /\ UNCHANGED apart
    \/ \E s \in Sessions : LoadReturn(s, TRUE) /\ UNCHANGED apart
    \/ \E s \in Sessions : LoadGameBegin(s) /\ UNCHANGED apart
    \/ \E s \in Sessions : LoadGameReturn(s, TRUE) /\ UNCHANGED apart
    \/ \E s \in Sessions : UnloadGameReturn(s) /\ UNCHANGED apart
    \/ \E s \in Sessions : DropBegin(s) /\ UNCHANGED apart
    \/ \E s \in Sessions : DeinitReturn(s) /\ UNCHANGED apart
    \/ \E s \in Sessions : RunBegin(s) /\ UNCHANGED apart
    \/ \E s \in Sessions : RunReturn(s) /\ UNCHANGED apart
    \/ \E data \in RetroPixelFormat :
           CoreEnvironment(RETRO_ENVIRONMENT_SET_PIXEL_FORMAT, data)
           /\ UNCHANGED apart
    \/ CoreInputPoll /\ UNCHANGED apart
    \/ CoreInputState /\ UNCHANGED apart
    \/ CoreVideoRefresh /\ UNCHANGED apart
    \/ CoreAudioSample /\ UNCHANGED apart

FormatSpec == Init /\ [][FormatNext]_vars

-----------------------------------------------------------------------------
(* Feed navigation, statement by statement.  navigate_feed and             *)
(* select_feed_index move the index, return if it did not change, store    *)
(* the autosave of the item they leave, clear the slot, build the runtime  *)
(* of the item they enter, restore its autosave and apply the load.        *)
(* A runtime is the key of the item it was built for and its machine       *)
(* state st; a save state is what serialize copies of it.  app.last is the *)
(* last call the handler made, app.gone (history) the machine state each   *)
(* item's runtime had when it was dropped after a successful autosave.     *)

\* frames a runtime runs between two navigations
MaxSt == 2

\* EmulatorRuntime::new for a feed item
runtime_new(item) == [of |-> session_autosave_key(item), st |-> 0]

\* EmulatorRuntime::serialize and unserialize
runtime_serialize(runtime) == [of |-> runtime.of, st |-> runtime.st]
runtime_unserialize(runtime, state) == [runtime EXCEPT !.st = state.st]

NavCall(op, key, data, ok) ==
    [op |-> op, arg |-> 0, key |-> key, data |-> data, ok |-> ok]

\* a handler called with delta or index arg; ok: the index has changed
NavHandler(op, arg, ok) == [NavCall(op, <<>>, <<>>, ok) EXCEPT !.arg = arg]

NavNew(feed, items, built) ==
    [phase |-> "on", feed |-> feed, items |-> items, current_index |-> 0,
     leaving_key |-> <<>>,
     runtime |-> IF built THEN <<runtime_new(items[1])>> ELSE <<>>,
     runtime_meta |-> IF built THEN <<session_autosave_key(items[1])>> ELSE <<>>,
     audio_stream |-> built, load |-> <<>>, session_autosaves |-> <<>>,
     feed_error |-> ~built, last |-> NavCall("new", <<>>, <<>>, built),
     gone |-> <<>>]

\* feed.current().map(FeedItem::session_autosave_key)
current_key(a) ==
    IF current(a) = <<>> THEN <<>> ELSE <<session_autosave_key(current(a)[1])>>

\* a handler that restores under the key of the item it left
entering_key_stale(a) == a.leaving_key

\* the key of the current item once the index has moved
entering_key(a) == current_key(a)

\* a handler that reloads whether or not the index moved
changed_always(a, index) == TRUE

\* let changed = feed.current_index != previous_index
changed(a, index) == index # a.current_index

\* the head of both handlers: the move, and the return when nothing changed
move_to(a, op, arg, index) ==
    IF ~a.feed THEN [a EXCEPT !.last = NavHandler(op, arg, FALSE)]
    ELSE IF ~changed(a, index)
         THEN [a EXCEPT !.last = NavHandler(op, arg, FALSE)]
         ELSE [a EXCEPT !.phase = "moved", !.current_index = index,
                        !.leaving_key = current_key(a),
                        !.last = NavHandler(op, arg, TRUE)]

\* navigate_feed up to `if !changed { return; }`
NavNavigateFeed(delta) ==
    /\ app.phase = "on"
    /\ app' = move_to(app, "navigate_feed", delta,
                      IF ~app.feed THEN 0
                      ELSE IF delta > 0 THEN next(app)
                      ELSE IF delta < 0 THEN prev(app) ELSE app.current_index)
    /\ AppFrame

\* select_feed_index up to `if !changed { return; }`
NavSelectFeedIndex(index) ==
    /\ app.phase = "on"
    /\ app' = move_to(app, "select_feed_index", index,
                      IF ~app.feed THEN 0 ELSE select(app, index))
    /\ AppFrame

\* self.store_session_autosave(leaving_key)
NavStore(willing) ==
    /\ app.phase = "moved"
    /\ app' = IF app.leaving_key = <<>> \/ app.runtime = <<>>
              THEN [app EXCEPT !.phase = "stored"]
              ELSE IF willing
              THEN [app EXCEPT !.phase = "stored",
                       !.session_autosaves =
                           insert(@, app.leaving_key[1],
                                  runtime_serialize(app.runtime[1])),
                       !.last = NavCall("serialize", app.leaving_key,
                                        <<runtime_serialize(app.runtime[1])>>, TRUE)]
              ELSE [app EXCEPT !.phase = "stored",
                       !.last = NavCall("serialize", app.leaving_key, <<>>, FALSE)]
    /\ AppFrame

\* self.audio_stream = None; self.runtime = None; self.runtime_meta = None
NavClear ==
    /\ app.phase = "stored"
    /\ app' = [app EXCEPT !.phase = "cleared", !.audio_stream = FALSE,
                          !.runtime = <<>>, !.runtime_meta = <<>>,
                          !.gone = IF app.runtime # <<>> /\ app.last.op = "serialize"
                                      /\ app.last.ok
                                   THEN insert(@, app.runtime[1].of, app.runtime[1].st)
                                   ELSE @]
    /\ AppFrame

\* feed.build_runtime_for_current()
NavBuild(new_ok) ==
    /\ app.phase = "cleared"
    /\ app' = IF new_ok /\ current(app) # <<>>
              THEN [app EXCEPT !.phase = "built",
                               !.load = <<runtime_new(current(app)[1])>>,
                               !.last = NavCall("new", entering_key(app), <<>>, TRUE)]
              ELSE [app EXCEPT !.phase = "on", !.feed_error = TRUE,
                               !.last = NavCall("new", entering_key(app), <<>>, FALSE)]
    /\ AppFrame

\* self.restore_session_autosave(entering_key, &mut load)
NavRestore(unser_ok) ==
    /\ app.phase = "built"
    /\ LET key == entering_key(app)
       IN  app' = IF key = <<>> THEN [app EXCEPT !.phase = "restored"]
                  ELSE IF key[1] \notin DOMAIN app.session_autosaves
                  THEN [app EXCEPT !.phase = "restored"]
                  ELSE LET state == app.session_autosaves[key[1]]
                       IN  [app EXCEPT
                              !.phase = "restored",
                              !.load = IF unser_ok
                                       THEN <<runtime_unserialize(app.load[1], state)>>
                                       ELSE @,
                              !.last = NavCall("unserialize", key, <<state>>, unser_ok)]
    /\ AppFrame

\* self.apply_runtime_load(load); self.feed_error = None
NavApply(audio_ok) ==
    /\ app.phase = "restored"
    /\ app' = [app EXCEPT !.phase = "on", !.audio_stream = audio_ok,
                          !.runtime_meta = <<app.load[1].of>>,
                          !.runtime = app.load, !.load = <<>>,
                          !.feed_error = FALSE]
    /\ AppFrame

\* update: the runtime of the slot runs a frame
NavRunFrame ==
    /\ app.phase = "on" /\ app.runtime # <<>>
    /\ app.runtime[1].st < MaxSt
    /\ app' = [app EXCEPT !.runtime[1].st = @ + 1,
                          !.last = NavCall("run_frame", <<>>, <<>>, TRUE)]
    /\ AppFrame

NavInit ==
    /\ ProcessStart
    /\ ring = AudioRingBuffer(AudioCap)
    /\ ring_log = RingLogNew
    /\ seen = <<>>
    /\ frame_log = FrameLogNew
    /\ input_log = InputLogNew
    /\ timing = TimingNew
    /\ conv = ConvNew
    /\ locks = LocksNew
    /\ \E feed \in BOOLEAN, built \in BOOLEAN :
           app = NavNew(feed, <<RomFallback("rom1", "corex"),
                                RomFallback("rom2", "corex"),
                                RomFallback("rom3", "corex")>>, built)

NavNext ==
    \/ \E delta \in {0 - 1, 0, 1} : NavNavigateFeed(delta)
    \/ \E index \in 0 .. 3 : NavSelectFeedIndex(index)
    \/ \E willing \in BOOLEAN : NavStore(willing)
    \/ NavClear
    \/ \E new_ok \in BOOLEAN : NavBuild(new_ok)
    \/ \E unser_ok \in BOOLEAN : NavRestore(unser_ok)
    \/ \E audio_ok \in BOOLEAN : NavApply(audio_ok)
    \/ NavRunFrame

NavSpec == NavInit /\ [][NavNext]_vars

-----------------------------------------------------------------------------
(* The FeedController on its own: items and current_index under next,      *)
(* prev, select, add_byte and add_fallback_rom.  app.last is the call made *)
(* last.                                                                   *)

\* items a feed holds
MaxItems == 3

Roms == {"rom1", "rom2"}

\* FeedController::add_fallback_rom; found: the ROM hashes and a core id is
\* found for it
add_fallback_rom(a, rom_sha1, found) ==
    IF \E i \in 1 .. Len(a.items) : a.items[i].rom_sha1 = rom_sha1 THEN a
    ELSE IF ~found THEN a
    ELSE LET items == Append(a.items, RomFallback(rom_sha1, "corex"))
         IN  [a EXCEPT !.items = items,
                       !.current_index = IF Len(items) = 1 THEN 0 ELSE @]

FeedCall(op, arg, rom) == [op |-> op, arg |-> arg, rom |-> rom]

FeedControllerNew(items) ==
    [items |-> items, current_index |-> 0, last |-> FeedCall("load", 0, "-")]

Bytes(a) == {i \in 1 .. Len(a.items) : a.items[i].kind = "Byte"}

FeedNextItem ==
    /\ app' = [app EXCEPT !.current_index = next(app),
                          !.last = FeedCall("next", 0, "-")]
    /\ AppFrame

FeedPrev ==
    /\ app' = [app EXCEPT !.current_index = prev(app),
                          !.last = FeedCall("prev", 0, "-")]
    /\ AppFrame

FeedSelect(index) ==
    /\ app' = [app EXCEPT !.current_index = select(app, index),
                          !.last = FeedCall("select", index, "-")]
    /\ AppFrame

\* add_byte with the metadata of a Byte just created for rom_sha1
FeedAddByte(rom_sha1) ==
    /\ Len(app.items) < MaxItems
    /\ LET n == Cardinality(Bytes(app))
       IN  app' = [add_byte(app, [byte_id |-> <<"uuid", n>>, core_id |-> "corex",
                                  core_semver |-> "1", rom_sha1 |-> rom_sha1])
                     EXCEPT !.last = FeedCall("add_byte", n, rom_sha1)]
    /\ AppFrame

FeedAddFallbackRom(rom_sha1, found) ==
    /\ Len(app.items) < MaxItems
    /\ app' = [add_fallback_rom(app, rom_sha1, found)
                 EXCEPT !.last = FeedCall("add_fallback_rom", 0, rom_sha1)]
    /\ AppFrame

FeedInit ==
    /\ ProcessStart
    /\ ring = AudioRingBuffer(AudioCap)
    /\ ring_log = RingLogNew
    /\ seen = <<>>
    /\ frame_log = FrameLogNew
    /\ input_log = InputLogNew
    /\ timing = TimingNew
    /\ conv = ConvNew
    /\ locks = LocksNew
    /\ \E items \in {<<>>, <<RomFallback("rom1", "corex")>>,
                     <<Byte(<<"uuid", 0>>, "corex", "1", "rom1"),
                       RomFallback("rom2", "corex")>>} :
           app = FeedControllerNew(items)

FeedNext ==
    \/ FeedNextItem
    \/ FeedPrev
    \/ \E index \in 0 .. MaxItems : FeedSelect(index)
    \/ \E rom_sha1 \in Roms : FeedAddByte(rom_sha1)
    \/ \E rom_sha1 \in Roms, found \in BOOLEAN : FeedAddFallbackRom(rom_sha1, found)

FeedSpec == FeedInit /\ [][FeedNext]_vars

-----------------------------------------------------------------------------
(* The mutexes of the bridge.  The owner thread is in run_frame and the    *)
(* core calls the shims one after another; the audio thread pops samples;  *)
(* the input thread writes the joypad record.  What a thread has left to   *)
(* do is a sequence of lock and unlock steps; a lock step waits while the  *)
(* mutex is held.                                                           *)

Lock(m) == <<"lock", m>>
Unlock(m) == <<"unlock", m>>

\* a router that keeps its guard while the closure runs
with_callbacks_guarded(body) == <<Lock("router")>> \o body \o <<Unlock("router")>>

\* with_callbacks: the guard is a temporary of the statement that clones
\* the Arc; f runs after it
with_callbacks_steps(body) == <<Lock("router"), Unlock("router")>> \o body

\* Callbacks::set_pixel_format and Callbacks::pixel_format
pixel_format_steps == <<Lock("pixel_format"), Unlock("pixel_format")>>

\* the video_refresh closure and EmulatorRuntime::latest_frame
latest_frame_steps == <<Lock("latest_frame"), Unlock("latest_frame")>>

\* AudioRingBuffer::push_samples and pop_samples
ring_steps == <<Lock("audio"), Unlock("audio")>>

\* the input_state closure and a set_button on the shared record
joypad_steps == <<Lock("joypad"), Unlock("joypad")>>

\* LibretroCore::load storing the callback set
register_steps == <<Lock("router"), Unlock("router")>>

OwnerOps == {"environment", "video_refresh", "audio_sample", "input_poll",
             "input_state", "latest_frame", "register", "reenter"}

\* what the owner thread does for one operation; "reenter" is a callback
\* during which the router is entered again (a nested shim, or a register)
OwnerProgram(op) ==
    CASE op = "environment" -> with_callbacks_steps(pixel_format_steps)
      [] op = "video_refresh" ->
            with_callbacks_steps(pixel_format_steps \o latest_frame_steps)
      [] op = "audio_sample" -> with_callbacks_steps(ring_steps)
      [] op = "input_poll" -> with_callbacks_steps(<<>>)
      [] op = "input_state" -> with_callbacks_steps(joypad_steps)
      [] op = "latest_frame" -> latest_frame_steps
      [] op = "register" -> register_steps
      [] OTHER -> with_callbacks_steps(register_steps)

LockFrame ==
    UNCHANGED <<router, bridge, host, core, pc, ret, shim_ret, history,
                input_log, timing, conv, app>>

Begin(t, program) ==
    /\ locks.todo[t] = <<>>
    /\ locks' = [locks EXCEPT !.todo[t] = program]
    /\ LockFrame

OwnerCall(op) == Begin("owner", OwnerProgram(op))

\* write_audio on the audio thread
AudioPop == Begin("audio", ring_steps)

\* a button event on the input thread
InputWrite == Begin("input", joypad_steps)

\* Mutex::lock returns
LockStep(t) ==
    /\ locks.todo[t] # <<>> /\ Head(locks.todo[t])[1] = "lock"
    /\ locks.holder[Head(locks.todo[t])[2]] = "-"
    /\ locks' = [locks EXCEPT !.holder[Head(locks.todo[t])[2]] = t,
                              !.todo[t] = Tail(@)]
    /\ LockFrame

\* the guard is dropped
UnlockStep(t) ==
    /\ locks.todo[t] # <<>> /\ Head(locks.todo[t])[1] = "unlock"
    /\ locks' = [locks EXCEPT !.holder[Head(locks.todo[t])[2]] = "-",
                              !.todo[t] = Tail(@)]
    /\ LockFrame

LockNext ==
    \/ \E op \in OwnerOps : OwnerCall(op)
    \/ AudioPop
    \/ InputWrite
    \/ \E t \in Threads : LockStep(t)
    \/ \E t \in Threads : UnlockStep(t)

\* a thread that can take a mutex again and again does take it, and a
\* thread that holds one goes on to drop it
LockFair ==
    \A t \in Threads : SF_vars(LockStep(t)) /\ WF_vars(UnlockStep(t))

LockSpec == FrameInit /\ [][LockNext]_vars /\ LockFair

-----------------------------------------------------------------------------
(* Properties *)

\* C1 (Spec): save/restore determinism.  After a save, M >= 1 frames, a
\* restore of that save and the same M frames, with the joypad record
\* untouched since the save, the latest frame holds the same bytes as it
\* did after the first M frames.
C1_SaveRestoreDeterminism ==
    (det.phase = "B" /\ det.nb = det.na /\ det.fa # <<>> /\ det.fb # <<>>)
        => det.fa[1].data = det.fb[1].data

\* both continuations of MaxM frames have run, with the polled button held
C1_Witness ==
    /\ det.phase = "B" /\ det.na = MaxM /\ det.nb = MaxM
    /\ det.fa # <<>> /\ det.fb # <<>>
    /\ joypad[det.s].a

\* C2 (Spec): an Ok serialize returns a buffer as long as the size query
\* answered in that call, and passes that size to the native serialize.
C2_SerializeBufferSize ==
    (ret.op = "serialize" /\ ret.val = "Ok")
        => (Len(ret.buf) = ret.size /\ ret.passed = ret.size)

C2_Witness ==
    ret.op = "serialize" /\ ret.val = "Ok" /\ Len(ret.buf) = StateSize

\* C3 (Spec): a native serialize that returns false gives the Serialize
\* error and no buffer, a native unserialize that returns false gives the
\* Unserialize error; each reaches the caller of the facade wrapped as it
\* is, and no load or load_game reports either of them.
C3_SerializeErrors ==
    /\ (ret.op = "serialize" /\ ~ret.native)
           => (ret.val = "Err" /\ ret.err = RuntimeError("Serialize") /\ ret.buf = <<>>)
    /\ (ret.op = "unserialize" /\ ~ret.native)
           => (ret.val = "Err" /\ ret.err = RuntimeError("Unserialize"))
    /\ (ret.op = "serialize" /\ ret.val = "Err") => ret.err = RuntimeError("Serialize")
    /\ (ret.op = "unserialize" /\ ret.val = "Err") => ret.err = RuntimeError("Unserialize")
    /\ ret.op \in {"load", "load_game"} => ret.val \notin {"Serialize", "Unserialize", "Err"}

C3_Witness ==
    ret.op = "serialize" /\ ~ret.native /\ ret.val = "Err" /\ game_loaded[ret.s]

\* C4 (Spec): a serialize or unserialize that returns an error changes
\* nothing but its result: the Session stays as it was (live, game loaded
\* or not as before, still in the router), the bridge cells and the core
\* are untouched, and the owner is free to call again.
C4_FailedSaveRestoreIsLocal ==
    [][(ret' # ret /\ ret'.op \in {"serialize", "unserialize"} /\ ret'.val = "Err")
          => /\ UNCHANGED <<router, pixel_format, latest_frame, audio, joypad, life,
                            lib_mapped, game_loaded, loaded_game, core, pc>>
             /\ life'[ret'.s] = "live"
             /\ pc' = Idle]_vars

\* a restore was refused on a running Session that had produced a frame
C4_Witness ==
    /\ ret.op = "unserialize" /\ ret.val = "Err"
    /\ life[ret.s] = "live" /\ game_loaded[ret.s] /\ router = ret.s
    /\ latest_frame[ret.s] # <<>> /\ core[ret.s].st # 0

Events(s) == [i \in 1 .. Len(teardown[s]) |-> teardown[s][i].ev]

\* C5 (Spec): teardown is unload_game (if a game is loaded), deinit,
\* unregister, drop of the library, in this order, and the router resolves
\* to the Session during unload_game and deinit.
C5_TeardownOrder ==
    \A s \in Sessions :
        life[s] = "dead" =>
            /\ Events(s) \in {<<"unload_game", "deinit", "unregister", "drop_lib">>,
                              <<"deinit", "unregister", "drop_lib">>}
            /\ \A i \in 1 .. Len(teardown[s]) :
                   teardown[s][i].ev \in {"unload_game", "deinit"}
                       => teardown[s][i].reg = s

\* C6 (Spec): once a torn-down Session's library is unmapped, the router
\* does not hold that Session's callback set.
C6_UnregisteredBeforeUnmap ==
    \A s \in Sessions : (life[s] = "dead" /\ ~lib_mapped[s]) => router # s

\* C7 (PairSpec), as claimed: no callback of one Session's core is ever
\* delivered to the other Session's closures.
C7_NoCrossDelivery ==
    \A d \in xdeliv : d[1] = d[2]

\* C7 (PairSpec), amended: as long as no load has registered a Session
\* while the other Session's library was mapped, no callback of one
\* Session's core is delivered to the other Session's closures.
C7_NoCrossDeliverySequential ==
    ~overlap => \A d \in xdeliv : d[1] = d[2]

\* both Sessions have run, one after the other, and got their callbacks
C7_Witness ==
    ~overlap /\ <<"A", "A">> \in xdeliv /\ <<"B", "B">> \in xdeliv

Unregistered == {"video_refresh", "audio_sample", "audio_sample_batch",
                 "input_poll", "input_state"}

C9_NoRegistrantEnvironmentUnsupported ==
    (router = NoCallbacks /\ shim_ret.shim = "environment"
       /\ shim_ret.args[1] # RETRO_ENVIRONMENT_GET_CAN_DUPE)
        => ~shim_ret.ok

Known == {RETRO_ENVIRONMENT_GET_CAN_DUPE, RETRO_ENVIRONMENT_SET_PIXEL_FORMAT}

\* C10 (ShimSpec): for every command other than can-dupe (3) and
\* set-pixel-format (10) the environment shim returns false and leaves the
\* registered pixel format and every other host state as it was.
C10_UnknownCommands ==
    [][(shim_ret'.shim = "environment" /\ shim_ret'.args[1] \notin Known)
          => /\ ~shim_ret'.ok
             /\ UNCHANGED <<router, pixel_format, latest_frame, audio, joypad>>]_vars

\* an unknown command reached the shim while a negotiated format was registered
C10_Witness ==
    /\ shim_ret.shim = "environment" /\ shim_ret.args[1] \notin Known
    /\ Registered /\ pixel_format[router] = Rgb565

\* C11 (ShimSpec): with a Session registered, a set-pixel-format request
\* returns true and makes the requested format that Session's current
\* format exactly when the format is Xrgb8888 or Rgb565; a request for
\* 0rgb1555 returns false and leaves the current format as it was.
C11_SetPixelFormat ==
    [][(/\ shim_ret'.shim = "environment"
        /\ shim_ret'.args[1] = RETRO_ENVIRONMENT_SET_PIXEL_FORMAT
        /\ shim_ret'.args[2] \in RetroPixelFormat
        /\ Registered)
          => /\ shim_ret'.ok <=> shim_ret'.args[2] \in {Xrgb8888, Rgb565}
             /\ shim_ret'.ok => pixel_format' =
                    [pixel_format EXCEPT ![router] = shim_ret'.args[2]]
             /\ ~shim_ret'.ok => pixel_format' = pixel_format]_vars

\* 0rgb1555 was refused while the registered Session had negotiated Rgb565
C11_Witness ==
    /\ shim_ret.shim = "environment"
    /\ shim_ret.args = <<RETRO_ENVIRONMENT_SET_PIXEL_FORMAT, _0rgb1555>>
    /\ ~shim_ret.ok
    /\ Registered /\ pixel_format[router] = Rgb565

\* C12 (NewSpec): load succeeds only if the library reports API version 1;
\* on any other reported version it returns the ApiVersion error carrying
\* the expected and the actual version, the router slot keeps its content,
\* and no native setter or init is called (no native call begins, the core
\* stays as it was).
C12_VersionGating ==
    [][/\ (ret'.op = "load" /\ ret'.val = "Ok") => ret'.actual = RETRO_API_VERSION
       /\ (/\ ret' # ret /\ ret'.op = "load" /\ ret'.val # "LoadLibrary"
           /\ ret'.actual # RETRO_API_VERSION)
              => /\ ret'.val = "ApiVersion"
                 /\ ret'.expected = RETRO_API_VERSION
                 /\ life'[ret'.s] = "failed"
                 /\ pc' = Idle
                 /\ UNCHANGED <<router, pixel_format, latest_frame, audio, joypad,
                                core, pc, lib_mapped, xdeliv>>]_vars

\* a library reporting version 2 was turned away while the slot held the
\* callback set of an earlier Session
C12_Witness ==
    /\ ret.op = "load" /\ ret.val = "ApiVersion"
    /\ ret.expected = RETRO_API_VERSION /\ ret.actual = 2
    /\ router = "B" /\ ~core[ret.s].inited

\* C13 (NewSpec): a load that fails because an entry point is absent
\* returns the missing-symbol error naming that entry point.
C13_MissingSymbolNamed ==
    (ret.op = "load" /\ ret.absent # "")
        => (ret.val = "MissingSymbol" /\ ret.sym = ret.absent)

\* C14 (Spec): a load_game that fails on a Session without a game returns
\* the LoadGame error and leaves the Session initialized: still live, the
\* game-loaded flag false and no game image retained.
C14_LoadGameFailure ==
    [][(/\ ret'.op = "load_game" /\ ret'.val # "Ok"
        /\ ret' # ret \/ (pc.op = "load_game" /\ pc' = Idle)
        /\ ~game_loaded[ret'.s])
          => /\ ret'.val = "LoadGame"
             /\ life'[ret'.s] = "live"
             /\ ~game_loaded'[ret'.s] /\ ~loaded_game'[ret'.s]
             /\ ~core'[ret'.s].game
             /\ pc' = Idle]_vars

\* the native load-game refused; the Session is initialized and no more
C14_Witness ==
    /\ ret.op = "load_game" /\ ret.val = "LoadGame" /\ ~ret.native
    /\ life[ret.s] = "live" /\ core[ret.s].inited
    /\ ~game_loaded[ret.s] /\ ~loaded_game[ret.s]

Count(seq, ev) == Cardinality({i \in 1 .. Len(seq) : seq[i] = ev})
Index(seq, ev) == CHOOSE i \in 1 .. Len(seq) : seq[i] = ev

\* C15 (NewSpec): a Session that load returned is deinitialized exactly
\* once when it is destroyed, also when its load_game failed, and the
\* deinit comes before the library handle is dropped; until then deinit is
\* not called.
C15_DeinitOnce ==
    \A s \in Sessions :
        /\ life[s] = "dead" =>
               /\ Count(Events(s), "deinit") = 1
               /\ Count(Events(s), "drop_lib") = 1
               /\ Index(Events(s), "deinit") < Index(Events(s), "drop_lib")
               /\ ~core[s].inited /\ ~lib_mapped[s]
        /\ life[s] \in {"loading", "live"} =>
               (Count(Events(s), "deinit") = 0 /\ lib_mapped[s])

\* the constructor's load_game failed and the Session has been destroyed
C15_Witness ==
    /\ life["A"] = "dead"
    /\ ret.op = "load_game" /\ ret.val = "LoadGame" /\ ret.s = "A"
    /\ Events("A") = <<"deinit", "drop_lib">>

\* C16 (NewSpec): a runtime exists only if load and load_game both
\* succeeded, so its Session has a game loaded and run_frame is only ever
\* issued to a core with a game; a failed constructor reports its cause.
C16_RuntimeHasGame ==
    /\ \A s \in Sessions :
           runtime_exists(s) =>
               /\ game_loaded[s] /\ loaded_game[s] /\ lib_mapped[s]
               /\ core[s].inited /\ core[s].game
    /\ pc.op = "run" => (game_loaded[pc.s] /\ core[pc.s].game)
    /\ \A s \in Solo :
           (life[s] = "failed" \/ (life[s] \in {"dropping", "dead"} /\ ret.val # "Ok"))
               => ret.val \in {"LoadLibrary", "ApiVersion", "Utf8", "LoadGame"}

\* the core of an existing runtime is running a frame
C16_Witness ==
    /\ pc.op = "run" /\ pc.stage = "video"
    /\ life[pc.s] = "live" /\ game_loaded[pc.s] /\ ret.op = "load_game"

\* C17 (FrameSpec): latest_frame() returns none until a frame has been
\* stored and afterwards the single most recently stored frame, whole; the
\* cell holds that frame and no other.
C17_LatestFrame ==
    [][/\ latest_frame'["A"] = frame_log'.last
       /\ Len(latest_frame'["A"]) <= 1
       /\ frame_log'.op = "read" =>
              /\ seen' = frame_log'.last
              /\ frame_log'.stored = 0 <=> seen' = <<>>
              /\ seen' # <<>> =>
                     Len(seen'[1].data) = seen'[1].pitch * seen'[1].height]_vars

\* the reader got the newest frame while the core was inside retro_run,
\* having got an older, different frame before
C17_Witness ==
    /\ frame_log.op = "read" /\ frame_log.stored = 2
    /\ seen = frame_log.last /\ seen # <<>> /\ seen[1].data[1] = 0
    /\ pc.op = "run"

Suffix(seq, n) ==
    IF Len(seq) <= n THEN seq ELSE SubSeq(seq, Len(seq) - n + 1, Len(seq))

\* C18 (RingSpec): once more samples than the capacity have been pushed,
\* with no pop, the buffer holds the most recent `capacity` samples in
\* push order.
C18_Overflow ==
    (~ring_log.popped /\ Len(ring_log.pushed) > ring.capacity)
        => ring.inner = Suffix(ring_log.pushed, ring.capacity)

\* C19 (RingSpec): the number of buffered samples never exceeds the
\* capacity given at construction, 0 included.
C19_CapacityBound == Len(ring.inner) <= ring.capacity

Min(a, b) == IF a <= b THEN a ELSE b

\* C20 (RingSpec): pop_samples on a slice of n with k samples buffered
\* fills the first min(k, n) places with the oldest samples in order and
\* the others with 0, and removes those min(k, n) samples and no more.
C20_Underflow ==
    [][ring_log'.op = "pop" =>
          LET k == Len(ring.inner)
              n == ring_log'.n
              m == Min(k, n)
          IN  /\ Len(ring_log'.out) = n
              /\ \A i \in 1 .. n :
                     ring_log'.out[i] = IF i <= m THEN ring.inner[i] ELSE 0
              /\ ring'.inner = SubSeq(ring.inner, m + 1, k)
              /\ Len(ring'.inner) = k - m
              /\ ring'.capacity = ring.capacity]_vars

\* three samples were asked of a buffer that held two
C20_Witness ==
    /\ ring_log.op = "pop" /\ ring_log.n = 3
    /\ ring_log.out = <<1, 2, 0>> /\ ring.inner = <<>> /\ ring.capacity = 2

\* C21 (RingSpec): under any interleaving of pushes and pops in which the
\* buffer stays below its capacity, the samples the pops returned (padding
\* left out), in pop order, followed by what is still buffered, are the
\* pushed sequence: the pops return a prefix of it, nothing is lost,
\* duplicated or reordered.
C21_NoLossInOrder ==
    ring_log.peak < ring.capacity
        => /\ ring_log.taken \o ring.inner = ring_log.pushed
           /\ Len(ring_log.taken) <= Len(ring_log.pushed)
           /\ ring_log.taken = SubSeq(ring_log.pushed, 1, Len(ring_log.taken))

\* a batch of two was pushed, pops and pushes alternated, and the pops
\* have returned three samples in all without the buffer ever filling
C21_Witness ==
    /\ ring_log.peak = 2 /\ ring.capacity = 3
    /\ ring_log.taken = <<1, 2, 2>> /\ ring.inner = <<1>>
    /\ ring_log.pushed = <<1, 2, 2, 1>>

\* C28 (PairSpec): the router slot holds one callback set at most, and a
\* load replaces what was installed: from the moment a load has registered
\* and after it has returned, the shims delegate to the callback set of
\* that load, whichever Sessions were loaded before and alive or not.
C28_LoadReplacesRegistration ==
    /\ router \in Sessions \cup {NoCallbacks}
    /\ (ret.op = "load" /\ ret.val \in {"Pending", "Ok"}) => with_callbacks = ret.s

\* B's load has returned while the earlier Session A is alive and running
C28_Witness ==
    /\ ret.op = "load" /\ ret.val = "Ok" /\ ret.s = "B" /\ with_callbacks = "B"
    /\ life["A"] = "live" /\ game_loaded["A"] /\ <<"A", "A">> \in xdeliv

\* C30 (ShimSpec): the can-dupe query returns true at every invocation,
\* registered or not, whatever the data argument.
C30_CanDupeAlwaysYes ==
    (shim_ret.shim = "environment"
       /\ shim_ret.args[1] = RETRO_ENVIRONMENT_GET_CAN_DUPE)
        => shim_ret.ok

\* the field of the joypad record that holds button id
FieldOf == <<"b", "y", "select", "start", "up", "down", "left", "right",
             "a", "x", "l", "r">>
Field(id) == FieldOf[id + 1]

\* C22 (InputSpec): with a runtime registered, the input-state shim
\* returns 1 exactly when the port is 0, the device is the joypad, the id
\* is one of the twelve buttons and that button is pressed in the joypad
\* record at the call, and 0 otherwise, whatever the index.
C22_InputState ==
    [][(shim_ret' # shim_ret /\ shim_ret'.shim = "input_state" /\ Registered)
          => LET port == shim_ret'.args[1]
                 device == shim_ret'.args[2]
                 id == shim_ret'.args[4]
                 down == /\ port = 0 /\ device = RETRO_DEVICE_JOYPAD
                         /\ id \in ButtonIds
                         /\ joypad[router][Field(id)]
             IN  shim_ret'.val = IF down THEN 1 ELSE 0]_vars

\* the shim answered 1 for button R at index 1
C22_Witness ==
    /\ shim_ret.shim = "input_state" /\ shim_ret.val = 1
    /\ shim_ret.args = <<0, RETRO_DEVICE_JOYPAD, 1, RETRO_DEVICE_ID_JOYPAD_R>>
    /\ Registered

\* C23 (InputSpec): every button of the joypad record holds the value of
\* the last set_button for its id (false if none), so a write changes no
\* other button and a write with an unknown id changes nothing; a poll of
\* a button returns that last written value.
C23_LastWriterWins ==
    [][/\ \A id \in ButtonIds : joypad'["A"][Field(id)] = input_log'[id]
       /\ (/\ shim_ret' # shim_ret /\ shim_ret'.shim = "input_state"
           /\ shim_ret'.args[1] = 0 /\ shim_ret'.args[2] = RETRO_DEVICE_JOYPAD
           /\ shim_ret'.args[4] \in ButtonIds)
              => shim_ret'.val = IF input_log[shim_ret'.args[4]] THEN 1 ELSE 0]_vars

\* UP was pressed and released while B stayed pressed; the poll of UP got 0
C23_Witness ==
    /\ shim_ret.shim = "input_state" /\ shim_ret.val = 0
    /\ shim_ret.args = <<0, RETRO_DEVICE_JOYPAD, 0, RETRO_DEVICE_ID_JOYPAD_UP>>
    /\ ~input_log[RETRO_DEVICE_ID_JOYPAD_UP] /\ input_log[RETRO_DEVICE_ID_JOYPAD_B]
    /\ joypad["A"].b /\ ~joypad["A"].up

\* C24 (FpsSpec): for every existing runtime fps is set, is strictly
\* positive, equals what the core reported when that is greater than zero
\* and 60 otherwise; fps() returns it; it never changes while the runtime
\* exists.
C24_Fps ==
    [][/\ runtime_exists("A")' =>
             /\ timing'.fps # <<>>
             /\ ~timing'.fps[1].nan /\ timing'.fps[1].v > 0
             /\ (~timing'.reported.nan /\ timing'.reported.v > 0)
                   => timing'.fps[1] = timing'.reported
             /\ (~timing'.reported.nan /\ timing'.reported.v <= 0)
                   => timing'.fps[1].v = 60
             /\ timing'.read \in {<<>>, timing'.fps}
       /\ (runtime_exists("A") /\ runtime_exists("A")')
             => timing'.fps = timing.fps]_vars

\* the core reported a negative rate, fps() returned 60, a frame is running
C24_Witness ==
    /\ runtime_exists("A") /\ timing.reported = F64(0 - 1)
    /\ timing.read = <<F64(60)>> /\ pc.op = "run"

\* the claimed expansions, as arithmetic: the two shifted parts share no bit
expand5(v) == v * 8 + v \div 4
expand6(v) == v * 4 + v \div 16

\* the RGBA pixel claimed for a known pixel value
expected_rgba(format, p) ==
    CASE format = Rgb565 ->
            <<expand5((p \div 2048) % 32), expand6((p \div 32) % 64),
              expand5(p % 32), 255>>
      [] format = _0rgb1555 ->
            <<expand5((p \div 1024) % 32), expand5((p \div 32) % 32),
              expand5(p % 32), 255>>
      [] OTHER -> <<p[3], p[2], p[1], 255>>

\* C27 (PixelSpec): for a frame with pitch >= width x bytes-per-pixel and
\* at least pitch x height bytes of data, the output holds width x height
\* pixels and pixel k is (R, G, B, 255) of the k-th known pixel value:
\* 5-bit channels expanded by (v << 3) | (v >> 2), 6-bit by
\* (v << 2) | (v >> 4), Rgb565 from bits 15-11/10-5/4-0, 0rgb1555 from bits
\* 14-10/9-5/4-0, Xrgb8888 from bytes B, G, R, X; padding is ignored; 31 and
\* 63 expand to 255 and 0 to 0.
C27_PixelConversion ==
    /\ rgb5(31) = 255 /\ rgb6(63) = 255 /\ rgb5(0) = 0 /\ rgb6(0) = 0
    /\ (/\ conv.rgba # <<>>
        /\ conv.frame[1].pitch
              >= conv.frame[1].width * bytes_per_pixel(conv.frame[1].pixel_format)
        /\ Len(conv.frame[1].data) >= conv.frame[1].pitch * conv.frame[1].height)
         => LET frame == conv.frame[1]
                rgba == conv.rgba[1]
            IN  /\ Len(rgba) = frame.width * frame.height * 4
                /\ \A k \in 1 .. frame.width * frame.height :
                      SubSeq(rgba, 4 * k - 3, 4 * k)
                          = expected_rgba(frame.pixel_format, conv.pixels[k])

\* a padded two-row Rgb565 frame whose first pixel 0xFFFF came out white
C27_Witness ==
    /\ conv.rgba # <<>> /\ conv.frame[1].pixel_format = Rgb565
    /\ conv.frame[1].height = 2 /\ conv.frame[1].width = 2
    /\ conv.frame[1].pitch = 5 /\ Len(conv.frame[1].data) = 10
    /\ conv.pixels[1] = 65535
    /\ SubSeq(conv.rgba[1], 1, 4) = <<255, 255, 255, 255>>
    /\ SubSeq(conv.rgba[1], 5, 8) = <<255, 0, 0, 255>>

\* C25 (AppSpec): every unserialize call the application makes hands the
\* runtime a blob whose producer reported the same core identifier and
\* version string as the runtime does: a mismatch is rejected before the
\* call, for stored Byte states and for session autosaves.
C25_RestoreGated ==
    \A i \in 1 .. Len(app.calls) : app.calls[i].info = app.calls[i].by

\* C26 (AppSpec): every Byte create_byte saves carries the library_name
\* and library_version of the runtime that produced its state blob, whether
\* the runtime was started from a ROM fallback or from a Byte.
C26_ByteTagged ==
    \A b \in app.store :
        b.created => /\ b.metadata.core_id = b.state.by.library_name
                     /\ b.metadata.core_semver = b.state.by.library_version

\* a Byte created on a runtime that was started from the stored Byte, and
\* the library file replaced since
C26_Witness ==
    /\ \E b \in app.store :
          /\ b.created /\ b.metadata.rom_sha1 = "rom1"
          /\ b.metadata.core_semver = "1"
    /\ StoredByte \in app.store
    /\ app.installed["corex"].library_name = "corey"
    /\ Len(app.items) = 3

\* a Session whose library is mapped or whose core is not torn down yet
standing(s) == life[s] \in {"loading", "live", "dropping"}

\* C29 (SwapSpec): in every application state at most one runtime stands,
\* and when the library of a new runtime is loaded and registered, every
\* runtime the slot has held is dead with retro_unload_game and
\* retro_deinit returned and its library dropped.
C29_OneRuntime ==
    [][/\ Cardinality({s \in Sessions : standing(s)'}) <= 1
       /\ \A t \in Sessions :
             (~lib_mapped[t] /\ lib_mapped'[t])
                => /\ router' = t
                   /\ \A s \in app.held :
                         /\ life[s] = "dead" /\ ~lib_mapped[s]
                         /\ [i \in 1 .. Len(teardown[s]) |-> teardown[s][i].ev]
                               = <<"unload_game", "deinit", "drop_lib">>]_vars

\* runtime B is in the slot after a swap that stored and restored an
\* autosave; runtime A, held before, is dead
C29_Witness ==
    /\ app.phase = "on" /\ app.slot = <<"B">> /\ app.held = {"A", "B"}
    /\ life["A"] = "dead" /\ life["B"] = "live" /\ game_loaded["B"]
    /\ ret.op = "unserialize" /\ ret.val = "Ok"
    /\ router = "B"

\* the frame a video-refresh call with these arguments is claimed to store
RefreshFrame(args, format) ==
    VideoFrame(args[2], args[3], args[4], format, Memory(args[1], args[4] * args[3]))

\* C31 as stated (ShimSpec): every video-refresh call made while a callback
\* set is registered stores, as that set's latest frame, a VideoFrame with
\* the call's width, height and pitch, the current pixel format and
\* pitch x height bytes of the buffer.
C31_EveryRefreshStores ==
    [][(shim_ret'.shim = "video_refresh" /\ shim_ret' # shim_ret /\ Registered)
          => latest_frame'[router]
                = <<RefreshFrame(shim_ret'.args, pixel_format[router])>>]_vars

\* C31 (ShimSpec): a video-refresh call with a non-null buffer and
\* non-zero width and height, made while a callback set is registered,
\* stores that VideoFrame as the set's latest frame before it returns,
\* replacing the one before; a call with a null buffer or a zero width or
\* height leaves every latest frame as it was.
C31_RefreshStores ==
    [][(shim_ret'.shim = "video_refresh" /\ Registered)
          => IF /\ shim_ret'.args[1] # NullPtr
                /\ shim_ret'.args[2] > 0 /\ shim_ret'.args[3] > 0
             THEN /\ latest_frame'[router]
                       = <<RefreshFrame(shim_ret'.args, pixel_format[router])>>
                  /\ Len(latest_frame'[router][1].data)
                       = shim_ret'.args[4] * shim_ret'.args[3]
             ELSE latest_frame' = latest_frame]_vars

\* a two-row Rgb565 frame is the latest one, after a null frame was passed
C31_Witness ==
    /\ Registered /\ shim_ret.shim = "video_refresh"
    /\ shim_ret.args = <<NullPtr, 1, 2, 2>>
    /\ latest_frame["A"] = <<VideoFrame(1, 2, 2, Rgb565, Memory(16, 4))>>

\* the last n elements of a sequence
LastN(seq, n) ==
    IF Len(seq) <= n THEN seq ELSE SubSeq(seq, Len(seq) - n + 1, Len(seq))

\* the ring of the registered runtime after `samples` were appended to it
Appended(samples) == LastN(audio[router] \o samples, AudioCap)

C33_RegisteredBeforeNative ==
    [][/\ \A s \in Sessions :
             (life[s] = "unborn" /\ life'[s] = "loading") => router' = s
       /\ (shim_ret' # shim_ret /\ shim_ret'.shim # "-")
             => /\ pc.op \in {"init", "load_game", "run", "unload_game", "deinit"}
                /\ with_callbacks = pc.s
                /\ (shim_ret'.shim = "environment" /\ shim_ret'.ok)
                      => pixel_format'[pc.s] = shim_ret'.args[2]
       /\ xdeliv' \subseteq {<<"A", "A">>}]_vars

\* the core of A negotiated Rgb565 during retro_init, in a process where an
\* earlier Session had been dropped and never unregistered
C33_Witness ==
    /\ pc.op = "init" /\ pc.s = "A" /\ life["B"] = "dead"
    /\ shim_ret.shim = "environment" /\ shim_ret.ok
    /\ router = "A" /\ pixel_format["A"] = Rgb565
    /\ <<"A", "A">> \in xdeliv

held_by(t) == {m \in Mutexes : locks.holder[m] = t}

waits_for(t) ==
    IF locks.todo[t] # <<>> /\ Head(locks.todo[t])[1] = "lock"
          /\ locks.holder[Head(locks.todo[t])[2]] # "-"
    THEN {Head(locks.todo[t])[2]} ELSE {}

Accepted(format) ==
    /\ shim_ret'.shim = "environment"
    /\ shim_ret'.args = <<RETRO_ENVIRONMENT_SET_PIXEL_FORMAT, format>>
    /\ shim_ret'.ok

\* C35 (FormatSpec): a Session's format starts as Xrgb8888 and changes only
\* by a set-pixel-format request accepted while that Session is the
\* registered one, to the format requested; a frame stored for a Session is
\* stored while it is registered and carries the Session's format of that
\* moment; so no frame is tagged 0rgb1555 and no Session starts from the
\* format another one negotiated.
C35_FrameTag ==
    /\ [](\A s \in Sessions :
             /\ life[s] = "unborn" => pixel_format[s] = Xrgb8888
             /\ latest_frame[s] # <<>>
                   => latest_frame[s][1].pixel_format \in {Xrgb8888, Rgb565})
    /\ [][\A s \in Sessions :
             /\ pixel_format'[s] # pixel_format[s]
                   => router = s /\ Accepted(pixel_format'[s])
             /\ (shim_ret' # shim_ret /\ router = s
                    /\ \E f \in RetroPixelFormat : Accepted(f))
                   => pixel_format'[s] = shim_ret'.args[2]
             /\ latest_frame'[s] # latest_frame[s]
                   => /\ router = s
                      /\ latest_frame'[s] # <<>>
                      /\ latest_frame'[s][1].pixel_format = pixel_format[s]]_vars

\* A negotiated Rgb565 and its frame carries that tag; B, registered after
\* it, asked for nothing and its frame is tagged Xrgb8888
C35_Witness ==
    /\ pixel_format["A"] = Rgb565
    /\ latest_frame["A"] # <<>> /\ latest_frame["A"][1].pixel_format = Rgb565
    /\ router = "B" /\ pixel_format["B"] = Xrgb8888
    /\ latest_frame["B"] # <<>> /\ latest_frame["B"][1].pixel_format = Xrgb8888

\* C36 (NewSpec): a library in which init has run is not unmapped before
\* deinit has run in it, also when load fails after init; and after a
\* failed load the router does not hold the callback set of the Session
\* that did not come into existence.
C36_InitDeinitPaired ==
    \A s \in Sessions :
        /\ ~lib_mapped[s] => ~core[s].inited
        /\ life[s] = "failed" => router # s

\* C37 (Spec): the native unload_game runs only while the Session's
\* game-loaded flag is true, which it clears, so a second unload_game or a
\* drop after it does not run it again and a Session that never loaded a
\* game never runs it; and the native load_game runs only on a Session
\* that has no game loaded.
C37_LoadUnloadAlternate ==
    /\ pc.op = "unload_game" => (game_loaded[pc.s] /\ core[pc.s].game)
    /\ pc.op = "load_game" => ~game_loaded[pc.s]
    /\ \A s \in Sessions : core[s].game => game_loaded[s]

\* C38 (NavSpec): the slot is cleared only after the autosave of the item
\* being left was attempted, and if serialize succeeded the map holds, under
\* that item's key, the state of the runtime as it is dropped; the load is
\* applied only after the stored autosave of the item being entered, if
\* there is one, was passed to unserialize on the new runtime, and that
\* state is the one the item's runtime had when it was last left with a
\* successful autosave; whether or not serialize or unserialize succeeded,
\* the applied runtime is the one of the item entered.
C38_AutosaveRoundTrip ==
    [][/\ (app.runtime # <<>> /\ app'.runtime = <<>>)
             => /\ app.phase = "stored"
                /\ app.leaving_key # <<>>
                     => /\ app.last.op = "serialize"
                        /\ app.last.key = app.leaving_key
                        /\ app.last.ok
                             => /\ app.leaving_key[1] \in DOMAIN app.session_autosaves
                                /\ app.session_autosaves[app.leaving_key[1]]
                                      = runtime_serialize(app.runtime[1])
       /\ (app.phase = "restored" /\ app'.phase = "on")
             => LET key == session_autosave_key(app.items[app.current_index + 1])
                IN  /\ app'.runtime # <<>> /\ app'.runtime[1].of = key
                    /\ app'.runtime_meta = <<key>>
                    /\ IF key \in DOMAIN app.session_autosaves
                       THEN /\ app.last.op = "unserialize"
                            /\ app.last.key = <<key>>
                            /\ app.last.data = <<app.session_autosaves[key]>>
                            /\ app.last.data[1].of = key
                            /\ app.last.data[1].st = app.gone[key]
                            /\ app'.runtime[1].st
                                  = IF app.last.ok THEN app.gone[key] ELSE 0
                       ELSE /\ app.last.op = "new"
                            /\ app'.runtime[1].st = 0]_vars

\* the runtime of rom1 ran two frames and was left; rom1 is entered again
\* and runs from the state it was left in; no autosave of another item
\* was stored on the way
C38_Witness ==
    /\ app.phase = "on" /\ app.current_index = 0
    /\ app.runtime = <<[of |-> <<"Rom", "rom1">>, st |-> MaxSt]>>
    /\ app.gone = (<<"Rom", "rom1">> :> MaxSt)
    /\ app.last = NavCall("unserialize", <<<<"Rom", "rom1">>>>,
                          <<[of |-> <<"Rom", "rom1">>, st |-> MaxSt]>>, TRUE)

\* the handler that has just run was asked for a move that leads nowhere
NoMove ==
    LET arg == app'.last.arg
        len == Len(app.items)
    IN  \/ ~app.feed
        \/ /\ app'.last.op = "navigate_feed"
           /\ \/ arg = 0
              \/ arg > 0 /\ app.current_index = len - 1
              \/ arg < 0 /\ app.current_index = 0
        \/ /\ app'.last.op = "select_feed_index"
           /\ (arg = app.current_index \/ arg >= len)

\* C39 (NavSpec): a navigate_feed or select_feed_index that does not change
\* the index (next at the last item, prev at the first, select of the
\* current or of an out-of-range index, no feed) returns at once: the
\* runtime, the audio stream, the runtime metadata, the autosave map and the
\* feed error are as before and nothing was serialized, dropped or built.
C39_NoChangeNoReload ==
    [][(/\ app'.last # app.last
        /\ app'.last.op \in {"navigate_feed", "select_feed_index"})
          => /\ NoMove <=> app'.current_index = app.current_index
             /\ NoMove => app' = [app EXCEPT !.last = app'.last]
             /\ NoMove <=> ~app'.last.ok]_vars

\* next was asked for at the last item while its runtime was running and
\* autosaves of earlier items were stored
C39_Witness ==
    /\ app.last = NavHandler("navigate_feed", 1, FALSE)
    /\ app.feed /\ app.current_index = Len(app.items) - 1
    /\ app.phase = "on" /\ app.runtime # <<>> /\ app.audio_stream
    /\ DOMAIN app.session_autosaves # {}

\* C40 (FeedSpec): while the feed has items, current_index is the index of
\* one of them; next goes one item on and stays at the last, prev goes one
\* back and stays at the first, neither goes round; after add_byte the
\* current item is the Byte just added, at the end of the feed.
C40_FeedIndex ==
    /\ [](app.items # <<>> => app.current_index \in 0 .. Len(app.items) - 1)
    /\ [][/\ (app'.last.op = "next" /\ app.items # <<>>)
                => /\ app'.items = app.items
                   /\ app'.current_index =
                         IF app.current_index = Len(app.items) - 1
                         THEN app.current_index ELSE app.current_index + 1
          /\ (app'.last.op = "prev" /\ app.items # <<>>)
                => /\ app'.items = app.items
                   /\ app'.current_index =
                         IF app.current_index = 0 THEN 0
                         ELSE app.current_index - 1
          /\ app'.last.op = "add_byte"
                => /\ app'.current_index = Len(app'.items) - 1
                   /\ current(app') =
                         <<Byte(<<"uuid", app'.last.arg>>, "corex", "1",
                                app'.last.rom)>>
                   /\ \A i \in 1 .. Len(app.items) :
                          app.items[i] # current(app')[1]]_vars

\* next was called at the last of three items, the second of them a Byte
\* added while the first was current
C40_Witness ==
    /\ app.last.op = "next"
    /\ Len(app.items) = MaxItems /\ app.current_index = MaxItems - 1
    /\ app.items[2].kind = "Byte"

=============================================================================
